---- MODULE Spec2Model ----
(***************************************************************************)
(* Model of the extrinsic / signing-payload codec of polkadot-ffi          *)
(* (src/polkadot-ffi/src/extrinsic.rs) and of the exported string-returning *)
(* boundary functions of polkadot-ffi and polkadot-ffi-subxt.              *)
(*                                                                         *)
(* Machine integers are modelled by their little-endian byte               *)
(* representation at their declared width (u32 = 4 bytes, u64 = 8,         *)
(* u128 = 16, usize = 8), so that casts, shifts and wrap-around are the    *)
(* ones the machine performs.  Byte buffers are modelled run-length        *)
(* encoded (a sequence of runs [b, n]: byte b repeated n times, n a usize, *)
(* adjacent runs carrying different bytes), which is an exact              *)
(* representation of a byte string and lets buffers of 2^32 bytes and more *)
(* be handled.                                                             *)
(***************************************************************************)
EXTENDS Integers, Sequences, FiniteSets, TLC

\* ------------------------------------------------------------------------
\* Bounds of the model
\* ------------------------------------------------------------------------

\* Longest argument buffer that is enumerated byte by byte.
MaxArgLen == 2

\* Most buffers the host keeps unreleased from one call to the next.
MaxHeld == 2

\* The longest list of signatories passed to create_multisig_address.
MaxSignatories == 3

\* ------------------------------------------------------------------------
\* Machine integers (little-endian byte strings of fixed width)
\* ------------------------------------------------------------------------

Byte == 0..255

\* Width in bytes of usize on the 64-bit targets the library is built for.
USIZE_BYTES == 8

RECURSIVE to_le_bytes(_, _)
\* n (a small natural) as w little-endian bytes.
to_le_bytes(n, w) ==
    IF w = 0 THEN <<>> ELSE <<n % 256>> \o to_le_bytes(n \div 256, w - 1)

usz(n) == to_le_bytes(n, USIZE_BYTES)

is_zero(x) == \A i \in 1..Len(x) : x[i] = 0

\* TRUE iff the value is below 2^24, so that it can be handled as a number.
is_small(x) == \A i \in 4..Len(x) : x[i] = 0

to_int(x) == x[1] + 256 * x[2] + 65536 * x[3]

RECURSIVE add_carry(_, _, _)
add_carry(a, b, c) ==
    IF a = <<>> THEN <<>>
    ELSE LET s == Head(a) + Head(b) + c
         IN  <<s % 256>> \o add_carry(Tail(a), Tail(b), s \div 256)

\* a + b modulo 2^(8 * width), both of the same width.
wrapping_add(a, b) == add_carry(a, b, 0)

RECURSIVE sub_borrow(_, _, _)
sub_borrow(a, b, c) ==
    IF a = <<>> THEN <<>>
    ELSE LET d == Head(a) - Head(b) - c
         IN  <<d % 256>> \o sub_borrow(Tail(a), Tail(b), IF d < 0 THEN 1 ELSE 0)

\* a - b modulo 2^(8 * width).
wrapping_sub(a, b) == sub_borrow(a, b, 0)

RECURSIVE less_from(_, _, _)
\* a < b on the bytes i..1 (most significant first).
less_from(a, b, i) ==
    IF i = 0 THEN FALSE
    ELSE IF a[i] # b[i] THEN a[i] < b[i]
    ELSE less_from(a, b, i - 1)

less(a, b) == less_from(a, b, Len(a))

\* x as u32 / x as u128 on an integer of another width: truncate or zero-extend.
cast(x, w) ==
    [i \in 1..w |-> IF i <= Len(x) THEN x[i] ELSE 0]

U32_MAX == [i \in 1..4 |-> 255]
USIZE_MAX == [i \in 1..USIZE_BYTES |-> 255]
\* isize::MAX = 2^63 - 1: the largest allocation size.
ISIZE_MAX == [i \in 1..USIZE_BYTES |-> IF i = USIZE_BYTES THEN 127 ELSE 255]

\* ------------------------------------------------------------------------
\* Byte buffers (run-length encoded)
\* ------------------------------------------------------------------------

run(b, n) == IF is_zero(n) THEN <<>> ELSE <<[b |-> b, n |-> n]>>

\* x followed by y (Vec::extend_from_slice).
extend_from_slice(x, y) ==
    IF x = <<>> THEN y
    ELSE IF y = <<>> THEN x
    ELSE IF x[Len(x)].b = y[1].b
         THEN SubSeq(x, 1, Len(x) - 1)
              \o << [b |-> y[1].b, n |-> wrapping_add(x[Len(x)].n, y[1].n)] >>
              \o Tail(y)
         ELSE x \o y

RECURSIVE bytes(_)
\* The buffer holding the explicit byte sequence s.
bytes(s) ==
    IF Len(s) = 0 THEN <<>>
    ELSE IF Len(s) = 1 THEN run(s[1], usz(1))
    ELSE LET h == Len(s) \div 2
         IN  extend_from_slice(bytes(SubSeq(s, 1, h)),
                               bytes(SubSeq(s, h + 1, Len(s))))

RECURSIVE slice_len(_)
\* Number of bytes of a buffer, as a usize.
slice_len(x) ==
    IF Len(x) = 0 THEN usz(0)
    ELSE IF Len(x) = 1 THEN x[1].n
    ELSE LET h == Len(x) \div 2
         IN  wrapping_add(slice_len(SubSeq(x, 1, h)),
                          slice_len(SubSeq(x, h + 1, Len(x))))

RECURSIVE take(_, _)
\* The first k bytes of x (all of x when it is shorter), k a usize.
take(x, k) ==
    IF x = <<>> \/ is_zero(k) THEN <<>>
    ELSE IF less(x[1].n, k)
         THEN <<x[1]>> \o take(Tail(x), wrapping_sub(k, x[1].n))
         ELSE <<[b |-> x[1].b, n |-> k]>>

RECURSIVE skip(_, _)
\* x without its first k bytes (empty when x is shorter), k a usize.
skip(x, k) ==
    IF x = <<>> \/ is_zero(k) THEN x
    ELSE IF less(x[1].n, k)
         THEN skip(Tail(x), wrapping_sub(k, x[1].n))
         ELSE run(x[1].b, wrapping_sub(x[1].n, k)) \o Tail(x)

RECURSIVE to_seq(_)
\* The explicit byte sequence of a (short) buffer.
to_seq(x) ==
    IF x = <<>> THEN <<>>
    ELSE [i \in 1..to_int(x[1].n) |-> x[1].b] \o to_seq(Tail(x))

\* ------------------------------------------------------------------------
\* SCALE encoding (parity_scale_codec, as used by extrinsic.rs)
\* ------------------------------------------------------------------------

\* (x << 2) | mode on the little-endian bytes of x, truncated to its width.
shl2_or(x, mode) ==
    [i \in 1..Len(x) |->
        ((x[i] * 4) % 256) + (IF i = 1 THEN mode ELSE x[i - 1] \div 64)]

\* Index of the most significant non-zero byte (0 for the value 0).
bytes_needed(x) ==
    IF is_zero(x) THEN 0
    ELSE CHOOSE k \in 1..Len(x) :
            x[k] # 0 /\ \A j \in (k + 1)..Len(x) : x[j] = 0

\* Short modes without the two-byte mode.
compact_short_wide(x) ==
    IF bytes_needed(x) <= 1 /\ x[1] <= 63 THEN <<x[1] * 4>>
    ELSE SubSeq(shl2_or(x, 2), 1, 4)

\* The three short modes shared by every Compact<T>: x is below 2^30.
compact_short(x) ==
    IF bytes_needed(x) <= 1 /\ x[1] <= 63 THEN <<x[1] * 4>>
    ELSE IF bytes_needed(x) <= 2 /\ x[2] <= 63 THEN SubSeq(shl2_or(x, 1), 1, 2)
    ELSE SubSeq(shl2_or(x, 2), 1, 4)

is_short(x) == bytes_needed(x) <= 3 \/ (bytes_needed(x) = 4 /\ x[4] <= 63)

\* Compact<u32>::encode: x is a u32 (4 bytes).
compact_u32(x) ==
    IF is_short(x) THEN compact_short(x)
    ELSE <<3>> \o x

\* A big mode whose first byte does not carry the number of bytes.
compact_u128_unsized(x) ==
    IF is_short(x) THEN compact_short(x)
    ELSE <<3>> \o SubSeq(x, 1, bytes_needed(x))

\* Compact<u128>::encode: x is a u128 (16 bytes).
compact_u128(x) ==
    IF is_short(x) THEN compact_short(x)
    ELSE <<3 + (bytes_needed(x) - 4) * 4>> \o SubSeq(x, 1, bytes_needed(x))

\* A shift that loses the bits crossing a byte border.
shr2_bytewise(x) == [i \in 1..Len(x) |-> x[i] \div 4]

\* x >> 2 on the little-endian bytes of x.
shr2(x) ==
    [i \in 1..Len(x) |->
        (x[i] \div 4) + (IF i < Len(x) THEN (x[i + 1] % 4) * 64 ELSE 0)]

\* Compact<T>::decode on the leading bytes s of an input, T an unsigned
\* integer of w bytes (4 or 16): the value (widened to a u128) and the number
\* of bytes used.  ok is FALSE when the input ends early, when the prefix
\* announces more bytes than T has, and when the value is not in the range of
\* the mode that carries it.
decode_compact_w(s, w) ==
    LET mode == IF Len(s) = 0 THEN 0 ELSE s[1] % 4
        n    == IF Len(s) = 0 THEN 0 ELSE (s[1] \div 4) + 4
        used == IF mode = 0 THEN 1
                ELSE IF mode = 1 THEN 2
                ELSE IF mode = 2 THEN 4
                ELSE n + 1
        Failed == [ok |-> FALSE, val |-> cast(<<>>, 16), used |-> 0]
    IN  IF Len(s) = 0 \/ (mode = 3 /\ n > w) \/ Len(s) < used THEN Failed
        ELSE
        LET raw == IF mode = 3 THEN SubSeq(s, 2, used)
                   ELSE shr2(SubSeq(s, 1, used))
            in_range ==
                IF mode = 0 THEN TRUE
                ELSE IF mode = 1 THEN raw[2] # 0 \/ raw[1] > 63
                ELSE IF mode = 2
                     THEN raw[4] # 0 \/ raw[3] # 0 \/ raw[2] > 63
                ELSE IF n = 4 THEN raw[4] > 63
                ELSE raw[n] # 0
        IN  IF in_range
            THEN [ok |-> TRUE, val |-> cast(raw, 16), used |-> used]
            ELSE Failed

\* Compact<u128>::decode and Compact<u32>::decode.
decode_compact(s) == decode_compact_w(s, 16)
decode_compact_u32(s) == decode_compact_w(s, 4)

\* A mortality encoding without the variant index.
Era_encode_untagged(era) ==
    IF era.mortal THEN <<era.period, era.phase>> ELSE <<0>>

\* Era::encode: the variant index, then the fields of the variant.
Era_encode(era) ==
    IF era.mortal THEN <<1, era.period, era.phase>> ELSE <<0>>

\* MultiAddress::Id(signer).encode(): index 0, then the 32 bytes.
MultiAddress_Id_encode(signer_array) ==
    extend_from_slice(bytes(<<0>>), signer_array)

\* MultiSignature::Sr25519(signature).encode(): index 1, then the 64 bytes.
MultiSignature_Sr25519_encode(signature_array) ==
    extend_from_slice(bytes(<<1>>), signature_array)

\* Concatenation of a sequence of buffers.
RECURSIVE concat(_)
concat(parts) ==
    IF parts = <<>> THEN <<>>
    ELSE extend_from_slice(Head(parts), concat(Tail(parts)))

\* ExtrinsicSignature::encode: the fields in declaration order.
ExtrinsicSignature_encode(sp) ==
    concat(<< MultiAddress_Id_encode(sp.signer),
              MultiSignature_Sr25519_encode(sp.signature),
              bytes(Era_encode(sp.era)),
              bytes(compact_u32(sp.nonce)),
              bytes(compact_u128(sp.tip)) >>)

\* Vec<u8>::encode panics ("Compact encodes length") when the length does not
\* fit a u32.
Vec_encode_panics(v) == less(cast(U32_MAX, USIZE_BYTES), slice_len(v))

\* Vec<u8>::encode: the compact length, then the bytes.
Vec_encode(v) ==
    extend_from_slice(bytes(compact_u32(cast(slice_len(v), 4))), v)

\* ScaleCompact(body.len() as u32).encode(): the length prefix of an
\* extrinsic.
length_prefix(body) == bytes(compact_u32(cast(slice_len(body), 4)))

\* Call::encode (derived): module_index, function_index, arguments as Vec<u8>.
Call_encode(call) ==
    extend_from_slice(bytes(<<call.module_index, call.function_index>>),
                      Vec_encode(call.arguments))

\* MultiAddress::encode (derived): the index of the variant in declaration
\* order, then its field.
MultiAddress_encode(v) ==
    IF v.variant = "Id" THEN MultiAddress_Id_encode(v.val)
    ELSE IF v.variant = "Index"
         THEN bytes(<<1>> \o compact_u32(v.val))
    ELSE IF v.variant = "Raw"
         THEN extend_from_slice(bytes(<<2>>), Vec_encode(v.val))
    ELSE IF v.variant = "Address32"
         THEN extend_from_slice(bytes(<<3>>), v.val)
    ELSE extend_from_slice(bytes(<<4>>), v.val)

\* MultiSignature::encode (derived).
MultiSignature_encode(v) ==
    IF v.variant = "Ed25519" THEN extend_from_slice(bytes(<<0>>), v.val)
    ELSE IF v.variant = "Sr25519" THEN MultiSignature_Sr25519_encode(v.val)
    ELSE extend_from_slice(bytes(<<2>>), v.val)

\* Decoders read from the front of an input x and yield the value with the
\* input that is left; DecodeErr is the Err(..) of the codec.
DecodeErr == [ok |-> FALSE]
Decoded(v, rest) == [ok |-> TRUE, val |-> v, rest |-> rest]

\* u8::decode.
read_byte(x) ==
    IF x = <<>> THEN DecodeErr ELSE Decoded(x[1].b, skip(x, usz(1)))

\* An array reader that fills a short input up with zeros.
read_array_padded(x, n) ==
    Decoded(take(extend_from_slice(x, run(0, usz(n))), usz(n)), skip(x, usz(n)))

\* <[u8; n]>::decode.
read_array(x, n) ==
    IF less(slice_len(x), usz(n)) THEN DecodeErr
    ELSE Decoded(take(x, usz(n)), skip(x, usz(n)))

\* Compact<T>::decode from an input, T of w bytes; the value as w bytes.
Compact_decode(x, w) ==
    LET d == decode_compact_w(to_seq(take(x, usz(17))), w)
    IN  IF d.ok THEN Decoded(cast(d.val, w), skip(x, usz(d.used)))
        ELSE DecodeErr

\* Vec<u8>::decode: the compact length, then that many bytes.
Vec_decode(x) ==
    LET n == Compact_decode(x, 4)
    IN  IF ~n.ok THEN DecodeErr
        ELSE IF less(slice_len(n.rest), cast(n.val, USIZE_BYTES)) THEN DecodeErr
        ELSE Decoded(take(n.rest, cast(n.val, USIZE_BYTES)),
                     skip(n.rest, cast(n.val, USIZE_BYTES)))

\* A decoded field f wrapped into the variant named v.
as_variant(v, f) ==
    IF f.ok THEN Decoded([variant |-> v, val |-> f.val], f.rest) ELSE DecodeErr

\* MultiAddress::decode (derived).
MultiAddress_decode(x) ==
    LET tag == read_byte(x)
    IN  IF ~tag.ok THEN DecodeErr
        ELSE IF tag.val = 0 THEN as_variant("Id", read_array(tag.rest, 32))
        ELSE IF tag.val = 1 THEN as_variant("Index", Compact_decode(tag.rest, 4))
        ELSE IF tag.val = 2 THEN as_variant("Raw", Vec_decode(tag.rest))
        ELSE IF tag.val = 3 THEN as_variant("Address32", read_array(tag.rest, 32))
        ELSE IF tag.val = 4 THEN as_variant("Address20", read_array(tag.rest, 20))
        ELSE DecodeErr

\* MultiSignature::decode (derived).
MultiSignature_decode(x) ==
    LET tag == read_byte(x)
    IN  IF ~tag.ok THEN DecodeErr
        ELSE IF tag.val = 0 THEN as_variant("Ed25519", read_array(tag.rest, 64))
        ELSE IF tag.val = 1 THEN as_variant("Sr25519", read_array(tag.rest, 64))
        ELSE IF tag.val = 2 THEN as_variant("Ecdsa", read_array(tag.rest, 65))
        ELSE DecodeErr

\* Era::decode (derived).
Era_decode(x) ==
    LET tag == read_byte(x)
    IN  IF ~tag.ok THEN DecodeErr
        ELSE IF tag.val = 0
             THEN Decoded([mortal |-> FALSE, period |-> 0, phase |-> 0], tag.rest)
        ELSE IF tag.val = 1
             THEN LET period == read_byte(tag.rest)
                      phase == IF period.ok THEN read_byte(period.rest)
                               ELSE DecodeErr
                  IN  IF phase.ok
                      THEN Decoded([mortal |-> TRUE, period |-> period.val,
                                    phase |-> phase.val], phase.rest)
                      ELSE DecodeErr
        ELSE DecodeErr

\* Call::decode (derived): module_index, function_index, arguments.
Call_decode(x) ==
    LET m == read_byte(x)
        f == IF m.ok THEN read_byte(m.rest) ELSE DecodeErr
        a == IF f.ok THEN Vec_decode(f.rest) ELSE DecodeErr
    IN  IF a.ok
        THEN Decoded([module_index |-> m.val, function_index |-> f.val,
                      arguments |-> a.val], a.rest)
        ELSE DecodeErr

\* ExtrinsicSignature::decode (derived): the fields in declaration order.
ExtrinsicSignature_decode(x) ==
    LET signer == MultiAddress_decode(x)
        signature == IF signer.ok THEN MultiSignature_decode(signer.rest)
                     ELSE DecodeErr
        era == IF signature.ok THEN Era_decode(signature.rest) ELSE DecodeErr
        nonce == IF era.ok THEN Compact_decode(era.rest, 4) ELSE DecodeErr
        tip == IF nonce.ok THEN Compact_decode(nonce.rest, 16) ELSE DecodeErr
    IN  IF tip.ok
        THEN Decoded([signer |-> signer.val, signature |-> signature.val,
                      era |-> era.val, nonce |-> nonce.val, tip |-> tip.val],
                     tip.rest)
        ELSE DecodeErr

\* ExtrinsicV4::decode (derived): signature: Option<ExtrinsicSignature> (0:
\* None, 1: Some), then function: Call.
ExtrinsicV4_decode(x) ==
    LET tag == read_byte(x)
        signature ==
            IF ~tag.ok THEN DecodeErr
            ELSE IF tag.val = 0 THEN Decoded([some |-> FALSE], tag.rest)
            ELSE IF tag.val = 1
                 THEN LET sg == ExtrinsicSignature_decode(tag.rest)
                      IN  IF sg.ok
                          THEN Decoded([some |-> TRUE, sig |-> sg.val], sg.rest)
                          ELSE DecodeErr
            ELSE DecodeErr
        function == IF signature.ok THEN Call_decode(signature.rest)
                    ELSE DecodeErr
    IN  IF function.ok
        THEN Decoded([signature |-> signature.val, function |-> function.val],
                     function.rest)
        ELSE DecodeErr

\* blake2_256 of sp_core, an external primitive: a 32-byte digest that is a
\* function of the input bytes.  The digest function itself is abstracted to
\* a position-weighted checksum of the runs, spread over 32 bytes.
RECURSIVE checksum(_, _)
checksum(x, pos) ==
    IF Len(x) = 0 THEN 7
    ELSE IF Len(x) = 1
         THEN ((x[1].b + 1) * (to_int(cast(x[1].n, 2) \o <<0>>) + pos)) % 65521
    ELSE LET h == Len(x) \div 2
         IN  (31 * checksum(SubSeq(x, 1, h), pos)
              + checksum(SubSeq(x, h + 1, Len(x)), pos + h)) % 65521

\* A digest of 64 bytes.
blake2_512(x) ==
    concat([j \in 1..8 |-> run(((checksum(x, 1) + 1) * (j + 2)) % 251, usz(8))])

blake2_256(x) ==
    concat([j \in 1..4 |-> run(((checksum(x, 1) + 1) * (j + 2)) % 251, usz(8))])

\* ------------------------------------------------------------------------
\* Raw pointers handed in by the caller
\* ------------------------------------------------------------------------

\* A pointer is null, or points at a caller buffer mem; after is what lies in
\* memory behind that buffer: a byte value that fills it, or -1 when the
\* memory behind the buffer is not mapped.
NULL == [null |-> TRUE, mem |-> <<>>, after |-> -1]
ptr(mem, after) == [null |-> FALSE, mem |-> mem, after |-> after]

\* Reading n bytes through slice::from_raw_parts(p, n).  Inside the caller's
\* buffer the bytes are the buffer's; a read past its end is undefined
\* behaviour and yields the adjacent memory, or an access fault.
read_faults(p, n) == less(slice_len(p.mem), n) /\ p.after = -1

from_raw_parts(p, n) ==
    IF less(slice_len(p.mem), n)
    THEN take(extend_from_slice(p.mem, run(p.after, n)), n)
    ELSE take(p.mem, n)

\* Vec::with_capacity / to_vec / reserve panic with "capacity overflow" when
\* the requested size exceeds isize::MAX.
capacity_overflow(n, extra) == less(wrapping_sub(ISIZE_MAX, usz(extra)), n)

\* ------------------------------------------------------------------------
\* Results of the closures run under catch_unwind
\* ------------------------------------------------------------------------

Ok(buf)  == [kind |-> "Ok", out |-> buf]
\* A null check that hands back an empty buffer.
ErrNull_empty_buffer == [kind |-> "Ok", out |-> <<>>]
\* return Err("Null pointer provided")
ErrNull  == [kind |-> "Err", out |-> <<>>]
Panicked == [kind |-> "Panic", out |-> <<>>]
Faulted  == [kind |-> "Fault", out |-> <<>>]

\* ------------------------------------------------------------------------
\* encode_unsigned_extrinsic
\* ------------------------------------------------------------------------

encode_unsigned_closure(module_index, function_index, arguments_ptr, arguments_len, out_ptr_null, out_len_null) ==
    IF arguments_ptr.null \/ out_ptr_null \/ out_len_null THEN ErrNull
    ELSE IF capacity_overflow(arguments_len, 2) THEN Panicked
    ELSE IF read_faults(arguments_ptr, arguments_len) THEN Faulted
    ELSE
    LET arguments == from_raw_parts(arguments_ptr, arguments_len)
        call_bytes ==
            extend_from_slice(bytes(<<module_index, function_index>>), arguments)
        extrinsic_bytes == extend_from_slice(bytes(<<4>>), call_bytes)
        output ==
            extend_from_slice(length_prefix(extrinsic_bytes), extrinsic_bytes)
    IN  Ok(output)

\* ------------------------------------------------------------------------
\* encode_signed_extrinsic
\* ------------------------------------------------------------------------

\* A tip that keeps the low half only.
tip_u128_low_only(tip_low, tip_high) == tip_low \o [i \in 1..8 |-> 0]

\* ((tip_high as u128) << 64) | (tip_low as u128)
tip_u128(tip_low, tip_high) == tip_low \o tip_high

\* A mortality kept only when it follows the era convention.
Era_validated(era_mortal, era_period, era_phase) ==
    IF era_mortal /\ era_phase < era_period
    THEN [mortal |-> TRUE, period |-> era_period, phase |-> era_phase]
    ELSE [mortal |-> FALSE, period |-> 0, phase |-> 0]

\* if era_mortal { Era::Mortal(era_period, era_phase) } else { Era::Immortal }
Era(era_mortal, era_period, era_phase) ==
    IF era_mortal
    THEN [mortal |-> TRUE, period |-> era_period, phase |-> era_phase]
    ELSE [mortal |-> FALSE, period |-> 0, phase |-> 0]

encode_signed_closure(module_index, function_index, arguments_ptr, arguments_len, signer_ptr, signature_ptr, nonce, tip_low, tip_high, era_mortal, era_period, era_phase, out_ptr_null, out_len_null) ==
    IF arguments_ptr.null \/ signer_ptr.null \/ signature_ptr.null
       \/ out_ptr_null \/ out_len_null
    THEN ErrNull
    ELSE IF capacity_overflow(arguments_len, 0) THEN Panicked
    ELSE IF \/ read_faults(arguments_ptr, arguments_len)
            \/ read_faults(signer_ptr, usz(32))
            \/ read_faults(signature_ptr, usz(64))
    THEN Faulted
    ELSE
    LET arguments == from_raw_parts(arguments_ptr, arguments_len)
        signer == from_raw_parts(signer_ptr, usz(32))
        signature == from_raw_parts(signature_ptr, usz(64))
        era == Era(era_mortal, era_period, era_phase)
        tip == tip_u128(tip_low, tip_high)
        signature_payload ==
            [signer |-> signer, signature |-> signature, era |-> era,
             nonce |-> nonce, tip |-> tip]
        final_tx ==
            concat(<< bytes(<<132>>),
                      ExtrinsicSignature_encode(signature_payload),
                      bytes(<<module_index, function_index>>),
                      arguments >>)
        output ==
            extend_from_slice(length_prefix(final_tx), final_tx)
    IN  Ok(output)

\* ------------------------------------------------------------------------
\* make_signing_payload
\* ------------------------------------------------------------------------

\* A tuple whose two versions are compact integers.
payload_encode_compact_versions(call, era, nonce, tip, spec_version, transaction_version, genesis_arr, block_arr) ==
    concat(<< Call_encode(call),
              bytes(Era_encode(era)),
              bytes(compact_u32(nonce)),
              bytes(compact_u128(tip)),
              bytes(compact_u32(spec_version)),
              bytes(compact_u32(transaction_version)),
              genesis_arr,
              block_arr >>)

\* A tuple with the tip before the nonce.
payload_encode_tip_first(call, era, nonce, tip, spec_version, transaction_version, genesis_arr, block_arr) ==
    concat(<< Call_encode(call),
              bytes(Era_encode(era)),
              bytes(compact_u128(tip)),
              bytes(compact_u32(nonce)),
              bytes(spec_version),
              bytes(transaction_version),
              genesis_arr,
              block_arr >>)

\* The SCALE encoding of the tuple (call, era, Compact(nonce), Compact(tip),
\* spec_version, transaction_version, genesis_arr, block_arr).
payload_encode(call, era, nonce, tip, spec_version, transaction_version, genesis_arr, block_arr) ==
    concat(<< Call_encode(call),
              bytes(Era_encode(era)),
              bytes(compact_u32(nonce)),
              bytes(compact_u128(tip)),
              bytes(spec_version),
              bytes(transaction_version),
              genesis_arr,
              block_arr >>)

\* Mutant: the threshold test written >= instead of >.
hash_if_long_at_256(payload) ==
    IF less(usz(255), slice_len(payload)) THEN blake2_256(payload) ELSE payload

\* if payload.len() > 256 { payload = blake2_256(&payload).to_vec(); }
hash_if_long(payload) ==
    IF less(usz(256), slice_len(payload)) THEN blake2_256(payload) ELSE payload

make_signing_payload_closure(module_index, function_index, arguments_ptr, arguments_len, nonce, tip_low, tip_high, era_mortal, era_period, era_phase, spec_version, transaction_version, genesis_hash_ptr, block_hash_ptr, out_ptr_null, out_len_null) ==
    IF arguments_ptr.null \/ genesis_hash_ptr.null \/ block_hash_ptr.null
       \/ out_ptr_null \/ out_len_null
    THEN ErrNull
    ELSE IF \/ read_faults(genesis_hash_ptr, usz(32))
            \/ read_faults(block_hash_ptr, usz(32))
    THEN Faulted
    ELSE IF capacity_overflow(arguments_len, 0) THEN Panicked
    ELSE IF read_faults(arguments_ptr, arguments_len) THEN Faulted
    ELSE
    LET arguments == from_raw_parts(arguments_ptr, arguments_len)
        genesis_arr == from_raw_parts(genesis_hash_ptr, usz(32))
        block_arr == from_raw_parts(block_hash_ptr, usz(32))
        call == [module_index |-> module_index,
                 function_index |-> function_index,
                 arguments |-> arguments]
        era == Era(era_mortal, era_period, era_phase)
        tip == tip_u128(tip_low, tip_high)
    IN  IF Vec_encode_panics(arguments) THEN Panicked
        ELSE Ok(hash_if_long(
                payload_encode(call, era, nonce, tip, spec_version,
                               transaction_version, genesis_arr, block_arr)))

\* ------------------------------------------------------------------------
\* C strings and hex (the string-returning boundary functions)
\* ------------------------------------------------------------------------

\* A C string is modelled as the sequence of its characters.
HexLower == <<"0", "1", "2", "3", "4", "5", "6", "7",
              "8", "9", "a", "b", "c", "d", "e", "f">>
HexUpper == <<"0", "1", "2", "3", "4", "5", "6", "7",
              "8", "9", "A", "B", "C", "D", "E", "F">>

is_hex_char(c) == \E i \in 1..16 : HexLower[i] = c \/ HexUpper[i] = c

hex_val(c) == (CHOOSE i \in 1..16 : HexLower[i] = c \/ HexUpper[i] = c) - 1

\* hex::decode: an odd length or a non-hex character is an error.
hex_decode(str) ==
    IF Len(str) % 2 = 1 \/ \E i \in 1..Len(str) : ~is_hex_char(str[i])
    THEN [ok |-> FALSE, val |-> <<>>]
    ELSE [ok |-> TRUE,
          val |-> [i \in 1..(Len(str) \div 2) |->
                      16 * hex_val(str[2 * i - 1]) + hex_val(str[2 * i])]]

\* hex::encode: two lower-case digits per byte.
hex_encode(bs) ==
    [i \in 1..(2 * Len(bs)) |->
        IF i % 2 = 1 THEN HexLower[(bs[(i + 1) \div 2] \div 16) + 1]
        ELSE HexLower[(bs[i \div 2] % 16) + 1]]

starts_with_0x(str) == Len(str) >= 2 /\ str[1] = "0" /\ str[2] = "x"

\* str.strip_prefix("0x").unwrap_or(&str), and the same done by slicing.
strip_0x(str) == IF starts_with_0x(str) THEN SubSeq(str, 3, Len(str)) ELSE str

\* The sr25519 signature of msg under the key expanded from seed: an external
\* primitive (schnorrkel), randomised by the nonce r it draws.  Abstracted to
\* 64 bytes that are a function of seed, message and r.
sr25519_sign(seed, msg, r) ==
    LET c == checksum(bytes(seed \o msg), r)
    IN  [i \in 1..64 |-> (c + r * i) % 256]

\* The random source fails (rand panics) when r = 0.
rng_fails(r) == r = 0

\* ExtrinsicResult { success, data, error }: data and error are C strings or
\* null pointers.
NullStr == [null |-> TRUE, str |-> <<>>]
CString(str) == [null |-> FALSE, str |-> str]

create_result(success, data, error) ==
    [success |-> success, data |-> data, error |-> error]

\* What a closure or a body hands back: a value, or a panic in flight.
Value(v) == [kind |-> "Ok", val |-> v]
Unwinding == [kind |-> "Panic", val |-> create_result(FALSE, NullStr, NullStr)]

\* polkadot-ffi: the body of sign_extrinsic (it runs directly in the exported
\* function).
ffi_sign_extrinsic_body(seed_hex, extrinsic_hex, r) ==
    LET seed == hex_decode(strip_0x(seed_hex))
        extrinsic == hex_decode(strip_0x(extrinsic_hex))
    IN  IF seed.ok /\ extrinsic.ok
        THEN IF Len(seed.val) = 32
             THEN IF rng_fails(r) THEN Unwinding
                  ELSE Value(create_result(TRUE,
                          CString(hex_encode(
                              sr25519_sign(seed.val, extrinsic.val, r))),
                          NullStr))
             ELSE Value(create_result(FALSE, NullStr,
                          CString("Failed to create keypair")))
        ELSE Value(create_result(FALSE, NullStr, CString("Invalid hex input")))

\* polkadot-ffi sign_extrinsic: the body's result is returned as it is.
ffi_sign_extrinsic(seed_hex, extrinsic_hex, r) ==
    ffi_sign_extrinsic_body(seed_hex, extrinsic_hex, r)

\* polkadot-ffi-subxt: the closure of sign_extrinsic.
subxt_sign_extrinsic_closure(seed_hex, extrinsic_hex, r) ==
    LET seed == hex_decode(strip_0x(seed_hex))
        extrinsic == hex_decode(strip_0x(extrinsic_hex))
    IN  IF seed.ok /\ extrinsic.ok
        THEN IF Len(seed.val) # 32
             THEN Value(create_result(FALSE, NullStr,
                          CString("Seed must be 32 bytes")))
             ELSE IF rng_fails(r) THEN Unwinding
             ELSE Value(create_result(TRUE,
                          CString(<<"0", "x">> \o hex_encode(
                              sr25519_sign(seed.val, extrinsic.val, r))),
                          NullStr))
        ELSE Value(create_result(FALSE, NullStr, CString("Invalid hex input")))

\* A fallback that builds a result without a message.
unwrap_or_empty_result(result) ==
    IF result.kind = "Ok" THEN result
    ELSE Value(create_result(FALSE, NullStr, NullStr))

\* result.unwrap_or_else(|_| create_result(false, None, "Panic occurred"))
unwrap_or_panic_result(result) ==
    IF result.kind = "Ok" THEN result
    ELSE Value(create_result(FALSE, NullStr, CString("Panic occurred")))

\* polkadot-ffi-subxt sign_extrinsic: the closure under catch_unwind.
subxt_sign_extrinsic(seed_hex, extrinsic_hex, r) ==
    unwrap_or_panic_result(
        subxt_sign_extrinsic_closure(seed_hex, extrinsic_hex, r))

\* ------------------------------------------------------------------------
\* derive_sr25519_from_mnemonic (both crates)
\* ------------------------------------------------------------------------

\* A phrase is the sequence of its words.  The BIP-39 word list and checksum
\* are external (sp_core / bip39): the list is cut down to the words below,
\* and the checksum carried by the last word to a sum of the word indices.
Wordlist == <<"helmet", "myself", "order", "all", "require", "large",
              "unusual", "verify", "ritual", "final", "apart", "abandon",
              "about", "nut">>

is_word(w) == \E k \in 1..Len(Wordlist) : Wordlist[k] = w
word_index(w) == CHOOSE k \in 1..Len(Wordlist) : Wordlist[k] = w

RECURSIVE index_sum(_)
index_sum(phrase) ==
    IF phrase = <<>> THEN 0
    ELSE word_index(Head(phrase)) + index_sum(Tail(phrase))

\* Pair::from_phrase / Mnemonic::parse succeed on a phrase of 12, 15, 18, 21
\* or 24 listed words with a matching checksum.
phrase_ok(phrase) ==
    /\ Len(phrase) \in {12, 15, 18, 21, 24}
    /\ \A k \in 1..Len(phrase) : is_word(phrase[k])
    /\ word_index(phrase[Len(phrase)]) % 4
         = index_sum(SubSeq(phrase, 1, Len(phrase) - 1)) % 4

\* pair.to_raw_vec() and pair.public().0 of the pair derived from a phrase:
\* external key derivation, abstracted to bytes that are a function of the
\* phrase.
pair_raw(phrase) ==
    [i \in 1..64 |-> (word_index(phrase[(i % Len(phrase)) + 1]) * 37 + i) % 256]
pair_public(phrase) ==
    [i \in 1..32 |-> (word_index(phrase[(i % Len(phrase)) + 1]) * 101 + 3 * i) % 256]

\* format!("{{\"seed\":\"{}\",\"public\":\"{}\"}}", seed_hex, pub_hex)
keypair_json(seed_hex, pub_hex) ==
    <<"{", "\"", "s", "e", "e", "d", "\"", ":", "\"">> \o seed_hex
    \o <<"\"", ",", "\"", "p", "u", "b", "l", "i", "c", "\"", ":", "\"">>
    \o pub_hex \o <<"\"", "}">>

\* The body shared by the two crates: they differ in how the error is
\* formatted and in how the result is built.
derive_from_mnemonic_body(phrase, mnemonic_error) ==
    IF phrase_ok(phrase)
    THEN LET raw == pair_raw(phrase)
         IN  IF Len(raw) < 32
             THEN Value(create_result(FALSE, NullStr,
                                      CString("Invalid raw key length")))
             ELSE LET seed_hex == <<"0", "x">> \o hex_encode(SubSeq(raw, 1, 32))
                      pub_hex == <<"0", "x">> \o hex_encode(pair_public(phrase))
                  IN  Value(create_result(TRUE,
                              CString(keypair_json(seed_hex, pub_hex)), NullStr))
    ELSE Value(create_result(FALSE, NullStr, CString(mnemonic_error)))

\* polkadot-ffi: the body runs directly in the exported function.
ffi_derive_sr25519_from_mnemonic(phrase) ==
    derive_from_mnemonic_body(phrase, "Mnemonic error: {}")

\* polkadot-ffi-subxt: the closure, and the function that runs it under
\* catch_unwind.
subxt_derive_sr25519_from_mnemonic_closure(phrase) ==
    derive_from_mnemonic_body(phrase, "Mnemonic error: {:?}")

subxt_derive_sr25519_from_mnemonic(phrase) ==
    unwrap_or_panic_result(subxt_derive_sr25519_from_mnemonic_closure(phrase))

\* ------------------------------------------------------------------------
\* submit_balance_transfer_subxt (polkadot-ffi-subxt)
\* ------------------------------------------------------------------------

\* TransferResult { success, tx_hash, error }, kept in the same record as an
\* ExtrinsicResult with tx_hash in the place of data.
transfer_result(success, tx_hash, error) ==
    [success |-> success, data |-> tx_hash, error |-> error]

\* AccountId32::from_str: external; the addresses it accepts are those below.
ValidAddresses == {"5GrwvaEF5zXb26Fz9rcQpDWS57CtERHpNehXCPcNoHGKutQY",
                   "5FHneW46xGXgs5mUiveU4sbTyGBzmstUspZC92UhjJM694ty"}

\* The extrinsic hash the node reports: 32 bytes that are a function of the
\* transfer.
extrinsic_hash(phrase, dest, amount) ==
    [i \in 1..32 |-> (index_sum(phrase) * 17 + (IF dest \in ValidAddresses THEN 5 ELSE 9)
                        + to_int(amount) + i) % 256]

\* What a closure did on the network besides what it hands back: the calls
\* it made to the chain client, in order.
Did(steps, r) == [kind |-> r.kind, val |-> r.val, steps |-> steps]

Failure(message) == Value(transfer_result(FALSE, NullStr, CString(message)))

\* Mnemonic::parse_normalized and Keypair::from_phrase, the first statements
\* of every submitting function.
signer_error(phrase) == ~phrase_ok(phrase)

\* A watch that takes the submission for the success.
sign_and_submit_unwatched(net, hash) ==
    IF net \in {"submit_error", "bad_metadata"}
    THEN Did(<<"connect", "sign_and_submit">>, Failure("Submit error: {}"))
    ELSE Did(<<"connect", "sign_and_submit">>,
             Value(transfer_result(TRUE,
                      CString(<<"0", "x">> \o hex_encode(hash)), NullStr)))

\* tokio_rt().block_on(sign_and_submit_then_watch_default(..) and then
\* wait_for_finalized_success()), and the match on its result: one
\* submission, no loop around it.
sign_and_submit_then_watch(net, hash) ==
    IF net \in {"submit_error", "bad_metadata"}
    THEN Did(<<"connect", "sign_and_submit">>, Failure("Submit error: {}"))
    ELSE IF net = "not_finalized"
    THEN Did(<<"connect", "sign_and_submit", "wait_for_finalized_success">>,
             Failure("Finalization error: {}"))
    ELSE Did(<<"connect", "sign_and_submit", "wait_for_finalized_success">>,
             Value(transfer_result(TRUE,
                      CString(<<"0", "x">> \o hex_encode(hash)), NullStr)))

\* tokio_rt().block_on(OnlineClient::from_url(url)), then the transaction.
\* net is what the runtime and the node do: "no_runtime" (the tokio runtime
\* cannot be started: expect panics), "refused", "bad_metadata" (the chain
\* does not know the call), "submit_error", "not_finalized", "finalized".
connect_then_submit(net, hash) ==
    IF net = "no_runtime" THEN Did(<<>>, Unwinding)
    ELSE IF net = "refused"
    THEN Did(<<"connect">>, Failure("Connection error: {}"))
    ELSE sign_and_submit_then_watch(net, hash)

\* The closure of submit_balance_transfer_subxt.
submit_balance_transfer_closure(net, phrase, dest, amount) ==
    IF signer_error(phrase) THEN Did(<<>>, Failure("Mnemonic error: {}"))
    ELSE IF dest \notin ValidAddresses
    THEN Did(<<>>, Failure("Address error: {}"))
    ELSE connect_then_submit(net, extrinsic_hash(phrase, dest, amount))

\* The closures of add_proxy and remove_proxy (the same statements, the call
\* name apart): any proxy type string and delay are passed on to the chain.
proxy_change_closure(net, phrase, delegate, delay) ==
    IF signer_error(phrase) THEN Did(<<>>, Failure("Mnemonic error: {}"))
    ELSE IF delegate \notin ValidAddresses
    THEN Did(<<>>, Failure("Address error: {}"))
    ELSE connect_then_submit(net, extrinsic_hash(phrase, delegate, delay))

\* The closures of set_identity and clear_identity: no address argument.
identity_change_closure(net, phrase) ==
    IF signer_error(phrase) THEN Did(<<>>, Failure("Mnemonic error: {}"))
    ELSE connect_then_submit(net, extrinsic_hash(phrase, "", <<0, 0, 0>>))

\* The closure of proxy_call.  args is the JSON text of the call arguments:
\* whether it parses, and its "dest" string ("" when there is none).
proxy_call_closure(net, phrase, real_account, pallet, call, args) ==
    IF signer_error(phrase) THEN Did(<<>>, Failure("Mnemonic error: {}"))
    ELSE IF real_account \notin ValidAddresses
    THEN Did(<<>>, Failure("Address error: {}"))
    ELSE IF ~args.json_ok THEN Did(<<>>, Failure("Args parse error: {}"))
    ELSE IF net = "no_runtime" THEN Did(<<>>, Unwinding)
    ELSE IF net = "refused"
    THEN Did(<<"connect">>, Failure("Connection error: {}"))
    ELSE IF pallet = "Balances" /\ call = "transfer_keep_alive"
    THEN IF args.dest \notin ValidAddresses
         THEN Did(<<"connect">>, Failure("Dest address error: {}"))
         ELSE IF net = "bad_metadata" THEN Did(<<"connect">>, Unwinding)
         ELSE sign_and_submit_then_watch(net,
                 extrinsic_hash(phrase, args.dest, <<0, 0, 0>>))
    ELSE Did(<<"connect">>,
             Failure("Unsupported pallet/call for proxy - currently only supports Balances::transfer_keep_alive"))

\* result.unwrap_or_else(|_| TransferResult { false, null, "Panic in .." })
unwrap_or_panic_in(res, message) ==
    IF res.kind = "Ok" THEN res ELSE Failure(message)

\* result.unwrap_or_else(|_| TransferResult { false, null, "Panic occurred" })
unwrap_or_panic_transfer(res) ==
    IF res.kind = "Ok" THEN res
    ELSE Value(transfer_result(FALSE, NullStr, CString("Panic occurred")))

submit_balance_transfer_subxt(net, phrase, dest, amount) ==
    unwrap_or_panic_transfer(
        submit_balance_transfer_closure(net, phrase, dest, amount))

\* ------------------------------------------------------------------------
\* create_multisig_address (polkadot-ffi-subxt)
\* ------------------------------------------------------------------------

\* AccountId32::from_str on an address it accepts: the 32 bytes of the
\* account (SS58 decoding is external; these are the accounts of the two
\* valid addresses).
AccountId32_from_str(addr) ==
    IF addr = "5GrwvaEF5zXb26Fz9rcQpDWS57CtERHpNehXCPcNoHGKutQY"
    THEN <<212, 53>> \o [i \in 1..30 |-> 147]
    ELSE <<142, 175>> \o [i \in 1..30 |-> 4]

\* AccountId32::to_string: the SS58 text of an account, kept as the account
\* it stands for.
AccountId32_to_string(id) == [ss58 |-> id]

\* The derived Ord of AccountId32: the order of its 32 bytes.
Ord_lt(a, b) ==
    \E k \in 1..Len(a) :
        /\ a[k] < b[k]
        /\ \A j \in 1..(k - 1) : a[j] = b[j]

RECURSIVE insert_sorted(_, _)
insert_sorted(id, sorted) ==
    IF sorted = <<>> THEN <<id>>
    ELSE IF Ord_lt(id, Head(sorted)) THEN <<id>> \o sorted
    ELSE <<Head(sorted)>> \o insert_sorted(id, Tail(sorted))

\* A list left in the order given.
slice_unsorted(ids) == ids

RECURSIVE slice_sort(_)
\* account_ids.sort()
slice_sort(ids) ==
    IF ids = <<>> THEN <<>>
    ELSE insert_sorted(ids[Len(ids)], slice_sort(SubSeq(ids, 1, Len(ids) - 1)))

RECURSIVE flatten(_)
flatten(ids) == IF ids = <<>> THEN <<>> ELSE Head(ids) \o flatten(Tail(ids))

\* b"modlpy/utilisuba"
MULTISIG_PREFIX ==
    <<109, 111, 100, 108, 112, 121, 47, 117, 116, 105, 108, 105, 115, 117, 98, 97>>

\* The closure: signatories is the JSON text (whether it parses as an array
\* of strings, and the strings), threshold a u16 as two little-endian bytes.
\* The JSON object returned is kept as a record of its three fields.
create_multisig_address_closure(signatories, threshold) ==
    IF ~signatories.json_ok
    THEN Value(create_result(FALSE, NullStr, CString("JSON parse error: {}")))
    ELSE IF \E k \in 1..Len(signatories.list) :
               signatories.list[k] \notin ValidAddresses
    THEN Value(create_result(FALSE, NullStr, CString("Invalid address {}: {}")))
    ELSE
    LET account_ids ==
            slice_sort([k \in 1..Len(signatories.list) |->
                           AccountId32_from_str(signatories.list[k])])
        data == MULTISIG_PREFIX \o threshold \o flatten(account_ids)
        hash == to_seq(blake2_256(bytes(data)))
    IN  Value(create_result(TRUE,
                 CString([multisig_address |-> AccountId32_to_string(hash),
                          threshold |-> threshold,
                          signatories |->
                             [k \in 1..Len(account_ids) |->
                                AccountId32_to_string(account_ids[k])]]),
                 NullStr))

create_multisig_address(signatories, threshold) ==
    unwrap_or_panic_in(create_multisig_address_closure(signatories, threshold),
                       "Panic in create_multisig_address")

\* ------------------------------------------------------------------------
\* Inputs the host program passes
\* ------------------------------------------------------------------------

fill(b, n) == run(b, usz(n))

u32(n) == to_le_bytes(n, 4)
u64(n) == to_le_bytes(n, 8)
U64_MAX == [i \in 1..8 |-> 255]

\* 2^32 as a usize.
TWO_POW_32 == [i \in 1..USIZE_BYTES |-> IF i = 5 THEN 1 ELSE 0]

ArgAlphabet == {0, 171}

\* Argument buffers enumerated byte by byte.
ExplicitArgs ==
    {bytes(q) : q \in UNION {[1..n -> ArgAlphabet] : n \in 0..MaxArgLen}}

\* Longer argument buffers: around the compact-mode switches of the length
\* prefix and around the 256-byte threshold of the signing payload.
BulkLens == {60, 61, 62, 151, 152, 153, 173, 174, 175, 176, 177, 178, 179,
             16279, 16280, 16380, 16381}

BulkArgs ==
    {fill(238, n) : n \in BulkLens}
    \cup {extend_from_slice(bytes(<<1, 2>>), fill(238, n - 2)) : n \in {61, 177}}

\* Argument buffers of about 4 GiB.
HugeArgs ==
    {extend_from_slice(bytes(<<7>>),
                       run(238, wrapping_sub(TWO_POW_32, usz(k + 1)))) :
        k \in {0, 2, 3, 4, 104, 105}}

arg(buf) == [p |-> ptr(buf, -1), len |-> slice_len(buf)]

\* Arguments as (pointer, length) pairs: the length is the buffer's, except
\* for a length of usize::MAX (a caller passing -1).
ArgInputs ==
    {arg(b) : b \in ExplicitArgs \cup BulkArgs \cup HugeArgs}
    \cup {[p |-> NULL, len |-> usz(0)],
          [p |-> ptr(bytes(<<171>>), -1), len |-> USIZE_MAX]}

Pallets == {4, 5, 255}
Calls == {1, 3}

\* A 32-byte account id and a 64-byte signature.
Signer32 == extend_from_slice(bytes(<<212, 53>>), fill(17, 30))
Signature64 == extend_from_slice(fill(34, 63), bytes(<<129>>))

\* What lies behind a caller buffer that is too short.
Adjacent == {-1, 0, 90}

SignerPtrs ==
    {NULL, ptr(Signer32, -1), ptr(fill(0, 32), -1),
     ptr(extend_from_slice(Signer32, bytes(<<153>>)), -1)}
    \cup {ptr(take(Signer32, usz(31)), a) : a \in Adjacent}

SignaturePtrs ==
    {NULL, ptr(Signature64, -1),
     ptr(extend_from_slice(Signature64, bytes(<<153>>)), -1)}
    \cup {ptr(take(Signature64, usz(63)), a) : a \in Adjacent}

Hash32 == extend_from_slice(bytes(<<145>>), fill(177, 31))
BlockHash32 == extend_from_slice(fill(195, 31), bytes(<<226>>))

GenesisPtrs ==
    {NULL, ptr(Hash32, -1)}
    \cup {ptr(take(Hash32, usz(n)), a) : n \in {0, 31}, a \in Adjacent}

BlockPtrs ==
    {NULL, ptr(BlockHash32, -1)}
    \cup {ptr(take(BlockHash32, usz(31)), a) : a \in Adjacent}

Nonces == {u32(0), u32(1), u32(63), u32(64), u32(16384), u32(1073741824), U32_MAX}

Tips == {<<u64(0), u64(0)>>, <<u64(1), u64(0)>>, <<u64(16383), u64(0)>>,
         <<U64_MAX, u64(0)>>, <<u64(0), u64(1)>>, <<U64_MAX, U64_MAX>>}

Eras == {<<FALSE, 0, 0>>, <<FALSE, 64, 5>>, <<TRUE, 64, 5>>, <<TRUE, 0, 255>>,
         <<TRUE, 3, 7>>}

Versions == {u32(0), u32(1), u32(9430), U32_MAX}

\* Parameter records of the calls the host makes.
UnsignedCall(m, f, a, opn, oln) ==
    [module_index |-> m, function_index |-> f, arguments_ptr |-> a.p,
     arguments_len |-> a.len, out_ptr_null |-> opn, out_len_null |-> oln]

SignedCall(m, f, a, sg, sig, n, t, e, opn, oln) ==
    [module_index |-> m, function_index |-> f, arguments_ptr |-> a.p,
     arguments_len |-> a.len, signer_ptr |-> sg, signature_ptr |-> sig,
     nonce |-> n, tip_low |-> t[1], tip_high |-> t[2], era_mortal |-> e[1],
     era_period |-> e[2], era_phase |-> e[3],
     out_ptr_null |-> opn, out_len_null |-> oln]

PayloadCall(m, f, a, n, t, e, sv, tv, g, b, opn, oln) ==
    [module_index |-> m, function_index |-> f, arguments_ptr |-> a.p,
     arguments_len |-> a.len, nonce |-> n, tip_low |-> t[1],
     tip_high |-> t[2], era_mortal |-> e[1], era_period |-> e[2],
     era_phase |-> e[3], spec_version |-> sv, transaction_version |-> tv,
     genesis_hash_ptr |-> g, block_hash_ptr |-> b,
     out_ptr_null |-> opn, out_len_null |-> oln]

BaseArg == arg(bytes(<<0, 171>>))
BaseTip == <<u64(0), u64(0)>>
BaseEra == <<FALSE, 0, 0>>
OutNulls == {<<TRUE, FALSE>>, <<FALSE, TRUE>>, <<TRUE, TRUE>>}
FewArgs == {arg(<<>>), BaseArg}
ThresholdArgs == {BaseArg, arg(fill(238, 153)), arg(fill(238, 175))}

UnsignedCalls ==
    {UnsignedCall(m, f, a, FALSE, FALSE) :
        m \in Pallets, f \in Calls, a \in ArgInputs}
    \cup {UnsignedCall(5, 1, BaseArg, o[1], o[2]) : o \in OutNulls}

SignedCalls ==
    {SignedCall(m, f, a, ptr(Signer32, -1), ptr(Signature64, -1), u32(0),
                BaseTip, BaseEra, FALSE, FALSE) :
        m \in Pallets, f \in Calls, a \in ArgInputs}
    \cup {SignedCall(5, 1, BaseArg, sg, sig, u32(0), BaseTip, BaseEra,
                     FALSE, FALSE) :
            sg \in SignerPtrs, sig \in SignaturePtrs}
    \cup {SignedCall(5, 1, a, ptr(Signer32, -1), ptr(Signature64, -1), n, t,
                     e, FALSE, FALSE) :
            a \in FewArgs, n \in Nonces, t \in Tips, e \in Eras}
    \cup {SignedCall(5, 1, BaseArg, ptr(Signer32, -1), ptr(Signature64, -1),
                     u32(0), BaseTip, BaseEra, o[1], o[2]) : o \in OutNulls}

PayloadCalls ==
    {PayloadCall(m, f, a, u32(0), BaseTip, e, u32(9430), u32(1),
                 ptr(Hash32, -1), ptr(BlockHash32, -1), FALSE, FALSE) :
        m \in Pallets, f \in Calls, a \in ArgInputs,
        e \in {BaseEra, <<TRUE, 64, 5>>}}
    \cup {PayloadCall(5, 1, BaseArg, u32(0), BaseTip, BaseEra, u32(9430),
                      u32(1), g, b, FALSE, FALSE) :
            g \in GenesisPtrs, b \in BlockPtrs}
    \cup {PayloadCall(5, 1, a, n, t, e, u32(9430), u32(1), ptr(Hash32, -1),
                      ptr(BlockHash32, -1), FALSE, FALSE) :
            a \in ThresholdArgs, n \in Nonces, t \in Tips, e \in Eras}
    \cup {PayloadCall(5, 1, BaseArg, u32(1), BaseTip, BaseEra, sv, tv,
                      ptr(Hash32, -1), ptr(BlockHash32, -1), FALSE, FALSE) :
            sv \in Versions, tv \in Versions}
    \cup {PayloadCall(5, 1, BaseArg, u32(0), BaseTip, BaseEra, u32(9430),
                      u32(1), ptr(Hash32, -1), ptr(BlockHash32, -1),
                      o[1], o[2]) : o \in OutNulls}

\* Hex strings handed to sign_extrinsic.
rep(c, n) == [i \in 1..n |-> c]

SeedHexes ==
    {rep("a", 64), <<"0", "x">> \o rep("1", 64), rep("A", 62) \o <<"0", "7">>,
     rep("a", 62), rep("a", 63), rep("g", 64), <<>>, <<"0", "x">>}

ExtrinsicHexes ==
    {<<>>, <<"0", "x">>, <<"0", "4", "0", "5", "0", "1">>,
     <<"0", "x", "0", "c", "0", "4", "0", "5", "0", "1">>,
     <<"a", "b", "c">>, <<"z", "z">>, <<"F", "f">>}

\* 0: the random source fails; otherwise the nonce it yields.
Rands == {0, 1, 2}

\* Phrases handed to the functions that take a mnemonic.
TestPhrase == <<"helmet", "myself", "order", "all", "require", "large",
                "unusual", "verify", "ritual", "final", "apart", "nut">>

Phrases ==
    {TestPhrase,
     [k \in 1..12 |-> IF k = 12 THEN "all" ELSE "abandon"],
     [k \in 1..12 |-> "abandon"],
     SubSeq(TestPhrase, 1, 11),
     [k \in 1..12 |-> IF k = 3 THEN "zzz" ELSE TestPhrase[k]],
     <<>>}

NetOutcomes == {"no_runtime", "refused", "submit_error", "not_finalized",
                "finalized"}

TransferCalls ==
    [net : NetOutcomes,
     phrase : {TestPhrase, <<>>},
     dest : ValidAddresses \cup {"", "0x1234"},
     amount : {to_le_bytes(0, 16), to_le_bytes(1000, 16)}]

\* Signatory lists: every list of up to MaxSignatories strings over the two
\* valid addresses and one that does not parse, and a text that is no JSON.
SignatoryStrings == ValidAddresses \cup {"5Grw"}

SignatoryLists ==
    UNION {[1..n -> SignatoryStrings] : n \in 0..MaxSignatories}

MultisigCalls ==
    {[signatories |-> [json_ok |-> TRUE, list |-> l], threshold |-> t] :
        l \in SignatoryLists, t \in {<<1, 0>>, <<2, 0>>, <<0, 1>>}}
    \cup {[signatories |-> [json_ok |-> FALSE, list |-> <<>>],
           threshold |-> <<2, 0>>]}

AllNetOutcomes == NetOutcomes \cup {"bad_metadata"}

ProxyChangeCalls ==
    [net : AllNetOutcomes,
     phrase : {TestPhrase, <<>>},
     delegate : ValidAddresses \cup {"", "0x1234"},
     delay : {u32(0), u32(10)}]

\* The JSON texts of call arguments: one that does not parse, and objects
\* with a valid "dest", an unparsable "dest" and none.
CallArgs ==
    {[json_ok |-> FALSE, dest |-> ""]}
    \cup {[json_ok |-> TRUE, dest |-> d] :
             d \in {"5FHneW46xGXgs5mUiveU4sbTyGBzmstUspZC92UhjJM694ty",
                    "0x1234", ""}}

ProxyCalls ==
    [net : AllNetOutcomes,
     phrase : {TestPhrase, <<>>},
     real_account : {"5GrwvaEF5zXb26Fz9rcQpDWS57CtERHpNehXCPcNoHGKutQY", ""},
     pallet : {"Balances", "System"},
     call : {"transfer_keep_alive", "transfer_all"},
     args : CallArgs]

IdentityCalls ==
    [net : AllNetOutcomes,
     phrase : {TestPhrase, [k \in 1..12 |-> "abandon"], <<>>}]

SignCalls ==
    [seed_hex : SeedHexes, extrinsic_hex : ExtrinsicHexes, r : Rands]

\* ------------------------------------------------------------------------
\* State: the host program calling into the library
\* ------------------------------------------------------------------------

VARIABLES
    pc,        \* "idle": the host is between calls; "returned": a call has
               \* returned; "unwound": a panic left an exported function;
               \* "crashed": an invalid read ended the process
    fn,        \* the exported function called last
    inp,       \* its parameters
    res_kind,  \* its local `result`: "Ok", "Err", "Panic" ("Fault": none)
    rc,        \* the i32 returned by a codec function (-1: none)
    out,       \* what a codec function stored through out_ptr and out_len
    result,    \* the ExtrinsicResult returned by a string function
    failures,  \* the failures returned so far: local result and return code
    heap,      \* the live boxed slices the library has leaked to the host:
               \* [addr, len]
    held,      \* the (pointer, length) pairs the host has received through
               \* out_ptr / out_len and not released yet
    first,     \* a codec call the host has kept a record of, to compare a
               \* later call with
    TOKIO,     \* static TOKIO: OnceLock<Runtime>: the state of its Once and
               \* the Runtime it holds (0: none)
    threads,   \* the host's threads inside tokio_rt(): where each one is,
               \* the &'static Runtime it got and those it got before
    runtimes   \* the Runtime instances Runtime::new() has built so far

vars == <<pc, fn, inp, res_kind, rc, out, result, failures, heap, held, first,
          TOKIO, threads, runtimes>>

NoInput == [none |-> TRUE]
NoOut == [written |-> FALSE, buf |-> <<>>, len |-> usz(0), ptr |-> 0]
NoFirst == [none |-> TRUE]

\* The host threads that may be inside an exported network function at the
\* same time, and the Runtime instances the model lets Runtime::new() build.
NumThreads == 3
MaxRuntimes == 2
Threads == 1 .. NumThreads

\* static TOKIO: OnceLock<Runtime> = OnceLock::new(): the Once has completed
\* no initialiser and the cell holds no Runtime (0).
OnceLock_new == [once |-> "incomplete", value |-> 0]

\* Runtime::new() returning Ok: a Runtime the process did not have before.
Runtime_new(built) == Cardinality(built) + 1

\* A get_or_init that tests the cell and then runs the initialiser, with
\* nothing that keeps a second caller out meanwhile.
Once_claims_unlocked(cell) == cell.once # "complete"

\* get_or_init -> Once::call_once_force: a caller runs the initialiser when
\* none has completed and none is running. An initialiser that panicked
\* leaves the Once for the next caller ("incomplete" stands for poisoned
\* too: call_once_force treats the two alike).
Once_claims(cell) == cell.once = "incomplete"

\* OnceLock::get: the value once an initialiser has completed, else none.
OnceLock_get(cell) == IF cell.once = "complete" THEN cell.value ELSE 0

\* The initialiser's result written into the cell, and the Once completed.
OnceLock_set(cell, rt) == [cell EXCEPT !.once = "complete", !.value = rt]

\* A thread that is not inside tokio_rt(): `at` is its position, rt the
\* &'static Runtime it has, got the ones earlier calls gave it, waited says
\* that this call found another thread's initialiser running.
NoCall == [at |-> "outside", rt |-> 0, got |-> {}, waited |-> FALSE]

\* The allocator: the address of the next allocation (addresses are told
\* apart, their values do not matter; 0 is the null pointer).
least_free(h) ==
    CHOOSE a \in 1..(Cardinality(h) + 1) :
        /\ \A b \in h : b.addr # a
        /\ \A c \in 1..(a - 1) : \E b \in h : b.addr = c

\* Box::into_raw(output.into_boxed_slice()): the buffer stays allocated and
\* its address goes to the caller.
Box_into_raw(h, buf) == h \cup {[addr |-> least_free(h), len |-> slice_len(buf)]}

\* A closure that has leaked its output box before it panics.
allocates_before_panic(r) == r.kind # "Err"

\* The closure leaks its output box only on the path that ends in Ok(()); on
\* an early return nothing has been allocated, and a panic drops the vectors
\* built so far while it unwinds.
allocates(r) == r.kind = "Ok"

\* drop(Box::from_raw(slice::from_raw_parts_mut(ptr, len))): the allocation
\* at ptr is returned to the allocator.
\* A release without the test for null.
drop_without_null_test(h, p, len) == [addr |-> p, len |-> len] \notin h

\* Box::from_raw on a pointer and length that are not those of a live boxed
\* slice (released before, or never allocated) is undefined behaviour: the
\* allocator aborts the process or its heap is silently corrupted.  The
\* function tests the pointer for null and nothing else.
drop_is_undefined(h, p, len) == p # 0 /\ [addr |-> p, len |-> len] \notin h

Box_from_raw_drop(h, p, len) == h \ {[addr |-> p, len |-> len]}
NoResult == [success |-> FALSE, data |-> NullStr, error |-> NullStr,
             none |-> TRUE]

Init ==
    /\ pc = "idle"
    /\ fn = "none"
    /\ inp = NoInput
    /\ res_kind = "none"
    /\ rc = -1
    /\ out = NoOut
    /\ result = NoResult
    /\ failures = {}
    /\ heap = {}
    /\ held = {}
    /\ first = NoFirst
    /\ TOKIO = OnceLock_new
    /\ threads = [t \in Threads |-> NoCall]
    /\ runtimes = {}

\* A return code that remembers an earlier failure.
return_code_latched(res) ==
    IF res.kind = "Ok" /\ failures = {} THEN 0 ELSE 1

\* match result { Ok(Ok(())) => 0, _ => 1 }
return_code(res) == IF res.kind = "Ok" THEN 0 ELSE 1

\* The tail shared by the three codec functions: the output is stored through
\* out_ptr / out_len inside the closure, and the closure's result is matched
\* into the return code.
CodecReturn(name, i, r) ==
    /\ fn' = name
    /\ inp' = i
    /\ res_kind' = r.kind
    /\ result' = NoResult
    /\ first' = first
    /\ UNCHANGED <<TOKIO, threads, runtimes>>
    /\ IF r.kind = "Fault"
       THEN /\ pc' = "crashed"
            /\ rc' = -1
            /\ out' = NoOut
            /\ failures' = failures
            /\ heap' = heap
            /\ held' = held
       ELSE /\ pc' = "returned"
            /\ rc' = return_code(r)
            /\ heap' = IF allocates(r) THEN Box_into_raw(heap, r.out) ELSE heap
            /\ out' = IF r.kind = "Ok"
                      THEN [written |-> TRUE, buf |-> r.out,
                            len |-> slice_len(r.out), ptr |-> least_free(heap)]
                      ELSE NoOut
            /\ held' = IF return_code(r) = 0
                       THEN held \cup {[addr |-> out'.ptr, len |-> out'.len]}
                       ELSE held
            /\ failures' =
                 IF return_code(r) = 0 THEN failures
                 ELSE failures \cup {[kind |-> r.kind, rc |-> return_code(r)]}

EncodeUnsignedExtrinsicOn(calls) ==
    /\ pc = "idle"
    /\ \E i \in calls :
         CodecReturn("encode_unsigned_extrinsic", i,
            encode_unsigned_closure(i.module_index, i.function_index,
                i.arguments_ptr, i.arguments_len, i.out_ptr_null,
                i.out_len_null))

EncodeUnsignedExtrinsic == EncodeUnsignedExtrinsicOn(UnsignedCalls)

EncodeSignedExtrinsicOn(calls) ==
    /\ pc = "idle"
    /\ \E i \in calls :
         CodecReturn("encode_signed_extrinsic", i,
            encode_signed_closure(i.module_index, i.function_index,
                i.arguments_ptr, i.arguments_len, i.signer_ptr,
                i.signature_ptr, i.nonce, i.tip_low, i.tip_high,
                i.era_mortal, i.era_period, i.era_phase, i.out_ptr_null,
                i.out_len_null))

EncodeSignedExtrinsic == EncodeSignedExtrinsicOn(SignedCalls)

MakeSigningPayloadOn(calls) ==
    /\ pc = "idle"
    /\ \E i \in calls :
         CodecReturn("make_signing_payload", i,
            make_signing_payload_closure(i.module_index, i.function_index,
                i.arguments_ptr, i.arguments_len, i.nonce, i.tip_low,
                i.tip_high, i.era_mortal, i.era_period, i.era_phase,
                i.spec_version, i.transaction_version, i.genesis_hash_ptr,
                i.block_hash_ptr, i.out_ptr_null, i.out_len_null))

MakeSigningPayload == MakeSigningPayloadOn(PayloadCalls)

\* The tail shared by the string-returning functions: body is what the body
\* (or closure) of the function ended with, ret what the function does with
\* it.  A value is returned to the host; a panic still in flight leaves the
\* extern "C" function.
StringReturn(name, i, body, ret) ==
    /\ fn' = name
    /\ inp' = i
    /\ res_kind' = body.kind
    /\ rc' = -1
    /\ out' = NoOut
    /\ failures' = failures
    /\ UNCHANGED <<heap, held, first>>
    /\ UNCHANGED <<TOKIO, threads, runtimes>>
    /\ IF ret.kind = "Panic"
       THEN pc' = "unwound" /\ result' = NoResult
       ELSE pc' = "returned" /\ result' = ret.val

FfiSignExtrinsic ==
    /\ pc = "idle"
    /\ \E i \in SignCalls :
         StringReturn("polkadot_ffi::sign_extrinsic", i,
            ffi_sign_extrinsic_body(i.seed_hex, i.extrinsic_hex, i.r),
            ffi_sign_extrinsic(i.seed_hex, i.extrinsic_hex, i.r))

SubxtSignExtrinsic ==
    /\ pc = "idle"
    /\ \E i \in SignCalls :
         StringReturn("polkadot_ffi_subxt::sign_extrinsic", i,
            subxt_sign_extrinsic_closure(i.seed_hex, i.extrinsic_hex, i.r),
            subxt_sign_extrinsic(i.seed_hex, i.extrinsic_hex, i.r))

FfiDeriveSr25519FromMnemonic ==
    /\ pc = "idle"
    /\ \E ph \in Phrases :
         StringReturn("polkadot_ffi::derive_sr25519_from_mnemonic",
            [phrase |-> ph],
            ffi_derive_sr25519_from_mnemonic(ph),
            ffi_derive_sr25519_from_mnemonic(ph))

SubxtDeriveSr25519FromMnemonic ==
    /\ pc = "idle"
    /\ \E ph \in Phrases :
         StringReturn("polkadot_ffi_subxt::derive_sr25519_from_mnemonic",
            [phrase |-> ph],
            subxt_derive_sr25519_from_mnemonic_closure(ph),
            subxt_derive_sr25519_from_mnemonic(ph))

\* A call of a submitting function: as StringReturn, and out holds the calls
\* the closure made to the chain client.
NetworkReturn(name, i, body, ret) ==
    /\ fn' = name
    /\ inp' = i
    /\ res_kind' = body.kind
    /\ rc' = -1
    /\ out' = [written |-> FALSE, buf |-> <<>>, len |-> usz(0), ptr |-> 0,
               steps |-> body.steps]
    /\ failures' = failures
    /\ UNCHANGED <<heap, held, first>>
    /\ pc' = "returned"
    /\ result' = ret.val
    /\ i.net = "no_runtime" => OnceLock_get(TOKIO) = 0
    /\ IF OnceLock_get(TOKIO) = 0 /\ body.steps # <<>>
       THEN /\ TOKIO' = OnceLock_set(TOKIO, Runtime_new(runtimes))
            /\ runtimes' = runtimes \cup {Runtime_new(runtimes)}
       ELSE UNCHANGED <<TOKIO, runtimes>>
    /\ UNCHANGED threads

SubmitBalanceTransferSubxt ==
    /\ pc = "idle"
    /\ \E i \in TransferCalls :
         NetworkReturn("submit_balance_transfer_subxt", i,
            submit_balance_transfer_closure(i.net, i.phrase, i.dest, i.amount),
            submit_balance_transfer_subxt(i.net, i.phrase, i.dest, i.amount))

AddProxy ==
    /\ pc = "idle"
    /\ \E i \in ProxyChangeCalls :
         NetworkReturn("add_proxy", i,
            proxy_change_closure(i.net, i.phrase, i.delegate, i.delay),
            unwrap_or_panic_in(
               proxy_change_closure(i.net, i.phrase, i.delegate, i.delay),
               "Panic in add_proxy"))

RemoveProxy ==
    /\ pc = "idle"
    /\ \E i \in ProxyChangeCalls :
         NetworkReturn("remove_proxy", i,
            proxy_change_closure(i.net, i.phrase, i.delegate, i.delay),
            unwrap_or_panic_in(
               proxy_change_closure(i.net, i.phrase, i.delegate, i.delay),
               "Panic in remove_proxy"))

ProxyCall ==
    /\ pc = "idle"
    /\ \E i \in ProxyCalls :
         NetworkReturn("proxy_call", i,
            proxy_call_closure(i.net, i.phrase, i.real_account, i.pallet,
                               i.call, i.args),
            unwrap_or_panic_in(
               proxy_call_closure(i.net, i.phrase, i.real_account, i.pallet,
                                  i.call, i.args),
               "Panic in proxy_call"))

SetIdentity ==
    /\ pc = "idle"
    /\ \E i \in IdentityCalls :
         NetworkReturn("set_identity", i,
            identity_change_closure(i.net, i.phrase),
            unwrap_or_panic_in(identity_change_closure(i.net, i.phrase),
                               "Panic in set_identity"))

CreateMultisigAddress ==
    /\ pc = "idle"
    /\ \E i \in MultisigCalls :
         StringReturn("create_multisig_address", i,
            create_multisig_address_closure(i.signatories, i.threshold),
            create_multisig_address(i.signatories, i.threshold))

ClearIdentity ==
    /\ pc = "idle"
    /\ \E i \in IdentityCalls :
         NetworkReturn("clear_identity", i,
            identity_change_closure(i.net, i.phrase),
            unwrap_or_panic_in(identity_change_closure(i.net, i.phrase),
                               "Panic in clear_identity"))

\* free_encoded_extrinsic(ptr, len): the host releases a buffer it holds,
\* or passes a null pointer, which the function ignores.
NullBuf == [addr |-> 0, len |-> usz(0)]

FreeEncodedExtrinsicOf(bufs) ==
    /\ pc \in {"idle", "returned"}
    /\ \E b \in bufs :
         /\ fn' = "free_encoded_extrinsic"
         /\ inp' = [ptr |-> b.addr, len |-> b.len]
         /\ heap' = IF b.addr # 0 THEN Box_from_raw_drop(heap, b.addr, b.len)
                    ELSE heap
         /\ held' = held \ {b}
         /\ IF drop_is_undefined(heap, b.addr, b.len)
            THEN /\ pc' \in {"crashed", "corrupted"}
                 /\ res_kind' = "Undefined"
            ELSE /\ pc' = "returned"
                 /\ res_kind' = "none"
    /\ rc' = -1
    /\ out' = NoOut
    /\ result' = NoResult
    /\ UNCHANGED <<failures, first>>
    /\ UNCHANGED <<TOKIO, threads, runtimes>>

\* The host releases a buffer it holds, or passes a null pointer.
FreeEncodedExtrinsic == FreeEncodedExtrinsicOf(held \cup {NullBuf})

\* The host takes the result of the call and goes on to its next call, while
\* it holds at most k unreleased buffers.
ResumeHolding(k) ==
    /\ pc = "returned"
    /\ Cardinality(held) <= k
    /\ pc' = "idle"
    /\ fn' = "none"
    /\ inp' = NoInput
    /\ res_kind' = "none"
    /\ rc' = -1
    /\ out' = NoOut
    /\ result' = NoResult
    /\ UNCHANGED <<failures, heap, held, first>>
    /\ UNCHANGED <<TOKIO, threads, runtimes>>

\* In the full-input specification the host releases every buffer before
\* its next call.
Resume == ResumeHolding(0)

Next ==
    \/ EncodeUnsignedExtrinsic
    \/ EncodeSignedExtrinsic
    \/ MakeSigningPayload
    \/ FfiSignExtrinsic
    \/ SubxtSignExtrinsic
    \/ FfiDeriveSr25519FromMnemonic
    \/ SubxtDeriveSr25519FromMnemonic
    \/ SubmitBalanceTransferSubxt
    \/ FreeEncodedExtrinsic
    \/ Resume

Spec == Init /\ [][Next]_vars

\* ------------------------------------------------------------------------
\* The host calling the same function again, and keeping buffers
\* ------------------------------------------------------------------------

\* A few calls of each encoder: calls that succeed with a raw and with a
\* hashed output, calls rejected for a null pointer and calls that panic.
FewArgInputs ==
    FewArgs \cup {arg(fill(238, 179)), [p |-> NULL, len |-> usz(0)],
                  [p |-> ptr(bytes(<<171>>), -1), len |-> USIZE_MAX]}

FewUnsignedCalls ==
    {UnsignedCall(m, 3, a, FALSE, FALSE) : m \in {4, 5}, a \in FewArgInputs}

FewSignedCalls ==
    {SignedCall(4, 3, a, ptr(Signer32, -1), ptr(Signature64, -1), n, BaseTip,
                <<TRUE, 64, 5>>, FALSE, FALSE) :
        a \in FewArgInputs, n \in {u32(0), u32(64)}}
    \cup {SignedCall(4, 3, BaseArg, ptr(take(Signer32, usz(31)), 90),
                     ptr(Signature64, -1), u32(0), BaseTip, BaseEra, FALSE,
                     FALSE)}

FewPayloadCalls ==
    {PayloadCall(4, 3, a, u32(1), BaseTip, BaseEra, u32(9430), u32(1),
                 ptr(Hash32, -1), b, FALSE, FALSE) :
        a \in FewArgInputs, b \in {ptr(BlockHash32, -1), NULL}}

\* The host keeps a record of the codec call that has just returned.
Remember ==
    /\ pc = "returned"
    /\ fn \in {"encode_unsigned_extrinsic", "encode_signed_extrinsic",
               "make_signing_payload"}
    /\ first = NoFirst
    /\ first' = [fn |-> fn, inp |-> inp, rc |-> rc, written |-> out.written,
                 buf |-> out.buf]
    /\ UNCHANGED <<pc, fn, inp, res_kind, rc, out, result, failures, heap, held>>
    /\ UNCHANGED <<TOKIO, threads, runtimes>>

\* Calls repeated after other calls, each buffer released before the next
\* call.
ReplayNext ==
    \/ EncodeUnsignedExtrinsicOn(FewUnsignedCalls)
    \/ EncodeSignedExtrinsicOn(FewSignedCalls)
    \/ MakeSigningPayloadOn(FewPayloadCalls)
    \/ FreeEncodedExtrinsic
    \/ Remember
    \/ Resume

ReplaySpec == Init /\ [][ReplayNext]_vars

\* Calls whose buffers the host keeps: one that succeeds, one rejected for a
\* null pointer and one that panics, for each encoder.
KeptArgInputs ==
    {BaseArg, [p |-> NULL, len |-> usz(0)],
     [p |-> ptr(bytes(<<171>>), -1), len |-> USIZE_MAX]}

KeptUnsignedCalls == {c \in FewUnsignedCalls :
    c.module_index = 4 /\ \E a \in KeptArgInputs :
        c.arguments_ptr = a.p /\ c.arguments_len = a.len}

KeptSignedCalls == {c \in FewSignedCalls :
    c.nonce = u32(0) /\ c.era_mortal /\ \E a \in KeptArgInputs :
        c.arguments_ptr = a.p /\ c.arguments_len = a.len}

KeptPayloadCalls == {c \in FewPayloadCalls :
    ~c.block_hash_ptr.null /\ \E a \in KeptArgInputs \cup {arg(fill(238, 179))} :
        c.arguments_ptr = a.p /\ c.arguments_len = a.len}

\* Any sequence of encode and release calls in which the host holds up to
\* MaxHeld buffers between calls.
OwnershipNext ==
    \/ EncodeUnsignedExtrinsicOn(KeptUnsignedCalls)
    \/ EncodeSignedExtrinsicOn(KeptSignedCalls)
    \/ MakeSigningPayloadOn(KeptPayloadCalls)
    \/ FreeEncodedExtrinsic
    \/ ResumeHolding(MaxHeld)

OwnershipSpec == Init /\ [][OwnershipNext]_vars

\* ------------------------------------------------------------------------
\* The signing flow: the host asks for the payload of a transaction, keeps
\* it, and then builds the signed extrinsic of the same transaction
\* ------------------------------------------------------------------------

\* Two calls carry the same mortality, nonce and tip.
SameExtra(a, b) ==
    /\ a.era_mortal = b.era_mortal
    /\ a.era_mortal => (a.era_period = b.era_period /\ a.era_phase = b.era_phase)
    /\ a.nonce = b.nonce
    /\ a.tip_low = b.tip_low /\ a.tip_high = b.tip_high

FlowPayloadCalls ==
    {PayloadCall(5, 1, a, n, t, e, u32(9430), u32(1), ptr(Hash32, -1),
                 ptr(BlockHash32, -1), FALSE, FALSE) :
        a \in {BaseArg, arg(fill(238, 179))}, n \in Nonces, t \in Tips,
        e \in Eras}

FlowSignedCalls ==
    {SignedCall(5, 1, a, ptr(Signer32, -1), ptr(Signature64, -1), n, t, e,
                FALSE, FALSE) :
        a \in {arg(<<>>), BaseArg}, n \in Nonces, t \in Tips, e \in Eras}

PayloadForTransaction ==
    /\ first = NoFirst
    /\ MakeSigningPayloadOn(FlowPayloadCalls)

ExtrinsicForTransaction ==
    /\ first # NoFirst
    /\ EncodeSignedExtrinsicOn({c \in FlowSignedCalls : SameExtra(c, first.inp)})

SigningFlowNext ==
    \/ PayloadForTransaction
    \/ Remember
    \/ ExtrinsicForTransaction
    \/ FreeEncodedExtrinsic
    \/ Resume

SigningFlowSpec == Init /\ [][SigningFlowNext]_vars

\* ------------------------------------------------------------------------
\* Calls over the whole range of the two mortality bytes
\* ------------------------------------------------------------------------

\* Every period with a few phases and every phase with a few periods, each
\* as a mortal and as an immortal era.
EraPairs ==
    {<<p, q>> : p \in 0..255, q \in {0, 1, 255}}
    \cup {<<p, p>> : p \in 0..255}
    \cup {<<p, q>> : p \in {0, 1, 3, 64, 255}, q \in 0..255}

AllEras == {<<m, pq[1], pq[2]>> : m \in BOOLEAN, pq \in EraPairs}

EraSignedCalls ==
    {SignedCall(5, 1, BaseArg, ptr(Signer32, -1), ptr(Signature64, -1),
                u32(64), <<u64(1), u64(0)>>, e, FALSE, FALSE) : e \in AllEras}

EraPayloadCalls ==
    {PayloadCall(5, 1, BaseArg, u32(64), <<u64(1), u64(0)>>, e, u32(9430),
                 u32(1), ptr(Hash32, -1), ptr(BlockHash32, -1), FALSE, FALSE) :
        e \in AllEras}

EraNext ==
    \/ EncodeSignedExtrinsicOn(EraSignedCalls)
    \/ MakeSigningPayloadOn(EraPayloadCalls)
    \/ FreeEncodedExtrinsic
    \/ Resume

EraSpec == Init /\ [][EraNext]_vars

\* ------------------------------------------------------------------------
\* Calls with every combination of null pointers
\* ------------------------------------------------------------------------

\* The arguments pointer: valid, or null with a length of 0, 5 or usize::MAX.
NullableArgs ==
    {BaseArg} \cup {[p |-> NULL, len |-> n] : n \in {usz(0), usz(5), USIZE_MAX}}

NullUnsignedCalls ==
    {UnsignedCall(5, 1, a, opn, oln) :
        a \in NullableArgs, opn \in BOOLEAN, oln \in BOOLEAN}

NullSignedCalls ==
    {SignedCall(5, 1, a, sg, sig, u32(0), BaseTip, BaseEra, opn, oln) :
        a \in NullableArgs, sg \in {NULL, ptr(Signer32, -1)},
        sig \in {NULL, ptr(Signature64, -1)}, opn \in BOOLEAN, oln \in BOOLEAN}

NullPayloadCalls ==
    {PayloadCall(5, 1, a, u32(0), BaseTip, BaseEra, u32(9430), u32(1), g, b,
                 opn, oln) :
        a \in NullableArgs, g \in {NULL, ptr(Hash32, -1)},
        b \in {NULL, ptr(BlockHash32, -1)}, opn \in BOOLEAN, oln \in BOOLEAN}

\* The host may keep one buffer across its calls.
NullNext ==
    \/ EncodeUnsignedExtrinsicOn(NullUnsignedCalls)
    \/ EncodeSignedExtrinsicOn(NullSignedCalls)
    \/ MakeSigningPayloadOn(NullPayloadCalls)
    \/ FreeEncodedExtrinsic
    \/ ResumeHolding(1)

NullSpec == Init /\ [][NullNext]_vars

\* ------------------------------------------------------------------------
\* A host that may release a buffer a second time
\* ------------------------------------------------------------------------

\* The host repeats the release it has just made.
ReleaseAgain ==
    /\ pc = "returned" /\ fn = "free_encoded_extrinsic"
    /\ FreeEncodedExtrinsicOf({[addr |-> inp.ptr, len |-> inp.len]})

CarelessNext ==
    \/ EncodeUnsignedExtrinsicOn(FewUnsignedCalls)
    \/ EncodeSignedExtrinsicOn(FewSignedCalls)
    \/ MakeSigningPayloadOn(FewPayloadCalls)
    \/ FreeEncodedExtrinsic
    \/ ReleaseAgain
    \/ ResumeHolding(1)

CarelessSpec == Init /\ [][CarelessNext]_vars

\* ------------------------------------------------------------------------
\* Calls over the two halves of the tip
\* ------------------------------------------------------------------------

TipHalves ==
    {u64(0), u64(1), u64(63), u64(64), u64(16384),
     [i \in 1..8 |-> IF i = 5 THEN 1 ELSE 0],
     [i \in 1..8 |-> IF i = 8 THEN 128 ELSE 0],
     U64_MAX}

TipPairs == {<<lo, hi>> : lo \in TipHalves, hi \in TipHalves}

TipSignedCalls ==
    {SignedCall(5, 1, BaseArg, ptr(Signer32, -1), ptr(Signature64, -1),
                u32(64), t, <<TRUE, 64, 5>>, FALSE, FALSE) : t \in TipPairs}

TipPayloadCalls ==
    {PayloadCall(5, 1, BaseArg, u32(64), t, <<TRUE, 64, 5>>, u32(9430),
                 u32(1), ptr(Hash32, -1), ptr(BlockHash32, -1), FALSE, FALSE) :
        t \in TipPairs}

TipNext ==
    \/ EncodeSignedExtrinsicOn(TipSignedCalls)
    \/ MakeSigningPayloadOn(TipPayloadCalls)
    \/ FreeEncodedExtrinsic
    \/ Resume

TipSpec == Init /\ [][TipNext]_vars

\* ------------------------------------------------------------------------
\* The submitting functions of polkadot-ffi-subxt
\* ------------------------------------------------------------------------

SubmitNext ==
    \/ SubmitBalanceTransferSubxt
    \/ AddProxy
    \/ RemoveProxy
    \/ ProxyCall
    \/ SetIdentity
    \/ ClearIdentity
    \/ Resume

SubmitSpec == Init /\ [][SubmitNext]_vars

\* ------------------------------------------------------------------------
\* Multisig addresses
\* ------------------------------------------------------------------------

MultisigNext ==
    \/ CreateMultisigAddress
    \/ Resume

MultisigSpec == Init /\ [][MultisigNext]_vars

\* ------------------------------------------------------------------------
\* The codec of the derived types, applied to values of its own
\* ------------------------------------------------------------------------

\* 2^e as a u128, and the u128 values around the powers of two.
pow2(e) == [i \in 1..16 |-> IF i = (e \div 8) + 1 THEN 2 ^ (e % 8) ELSE 0]
u128(n) == to_le_bytes(n, 16)
U128_MAX == [i \in 1..16 |-> 255]

U128Values ==
    UNION {{wrapping_sub(pow2(e), u128(1)), pow2(e), wrapping_add(pow2(e), u128(1))} :
              e \in 0..127}
    \cup {U128_MAX, wrapping_sub(U128_MAX, u128(1))}

U32Values == {cast(v, 4) : v \in {x \in U128Values : bytes_needed(x) <= 4}}

\* What follows an encoding in the input a decoder reads from.
Trailing == {<<>>, <<255>>, <<0, 7>>}

\* Bodies of the lengths at which the length prefix changes its width.
PrefixBodyLens == {0, 1, 62, 63, 64, 65, 16382, 16383, 16384, 16385}

PrefixBodies ==
    {fill(132, n) : n \in PrefixBodyLens}
    \cup {run(132, cast(wrapping_sub(pow2(30), u128(k)), USIZE_BYTES)) :
            k \in {0, 1}}

\* Compact<u32>: encode a value, decode what was encoded.
CompactU32 ==
    /\ pc = "idle"
    /\ \E v \in U32Values, t \in Trailing :
         /\ fn' = "Compact<u32>"
         /\ inp' = [v |-> v, trailing |-> t]
         /\ out' = [enc |-> compact_u32(v),
                    dec |-> decode_compact_u32(compact_u32(v) \o t)]
    /\ pc' = "applied"
    /\ UNCHANGED <<res_kind, rc, result, failures, heap, held, first>>
    /\ UNCHANGED <<TOKIO, threads, runtimes>>

\* Compact<u128>: encode a value, decode what was encoded.
CompactU128 ==
    /\ pc = "idle"
    /\ \E v \in U128Values, t \in Trailing :
         /\ fn' = "Compact<u128>"
         /\ inp' = [v |-> v, trailing |-> t]
         /\ out' = [enc |-> compact_u128(v),
                    dec |-> decode_compact(compact_u128(v) \o t)]
    /\ pc' = "applied"
    /\ UNCHANGED <<res_kind, rc, result, failures, heap, held, first>>
    /\ UNCHANGED <<TOKIO, threads, runtimes>>

\* The length prefix the two encoders put before a body.
LengthPrefix ==
    /\ pc = "idle"
    /\ \E b \in PrefixBodies :
         /\ fn' = "length_prefix"
         /\ inp' = [v |-> cast(slice_len(b), 16), body |-> b]
         /\ out' = [enc |-> to_seq(length_prefix(b)),
                    dec |-> decode_compact_u32(to_seq(length_prefix(b)))]
    /\ pc' = "applied"
    /\ UNCHANGED <<res_kind, rc, result, failures, heap, held, first>>
    /\ UNCHANGED <<TOKIO, threads, runtimes>>

\* Values of the three unions.
Variant(v, val) == [variant |-> v, val |-> val]

Ecdsa65 == extend_from_slice(bytes(<<2, 3>>), fill(85, 63))
Account20 == extend_from_slice(fill(9, 19), bytes(<<20>>))

MultiAddressValues ==
    {Variant("Id", Signer32), Variant("Id", fill(0, 32)),
     Variant("Address32", Hash32), Variant("Address20", Account20)}
    \cup {Variant("Index", n) : n \in Nonces}
    \cup {Variant("Raw", b) :
            b \in {<<>>, bytes(<<1, 2>>), fill(238, 63), fill(238, 64)}}

MultiSignatureValues ==
    {Variant("Ed25519", Signature64), Variant("Sr25519", Signature64),
     Variant("Sr25519", fill(0, 64)), Variant("Ecdsa", Ecdsa65)}

EraValues == {Era(e[1], e[2], e[3]) : e \in Eras}

\* A value of one of the unions is encoded.
UnionEncode ==
    /\ pc = "idle"
    /\ \/ \E v \in MultiAddressValues :
            /\ fn' = "MultiAddress::encode"
            /\ inp' = [v |-> v]
            /\ out' = [enc |-> MultiAddress_encode(v)]
       \/ \E v \in MultiSignatureValues :
            /\ fn' = "MultiSignature::encode"
            /\ inp' = [v |-> v]
            /\ out' = [enc |-> MultiSignature_encode(v)]
       \/ \E v \in EraValues :
            /\ fn' = "Era::encode"
            /\ inp' = [v |-> v]
            /\ out' = [enc |-> bytes(Era_encode(v))]
    /\ pc' = "applied"
    /\ UNCHANGED <<res_kind, rc, result, failures, heap, held, first>>
    /\ UNCHANGED <<TOKIO, threads, runtimes>>

\* Inputs of the union decoders: the encoding of a value v without its last
\* cut bytes (cut = 0: the whole encoding), and inputs whose first byte is
\* not a variant index.
Cuts == {0, 1, 2, 33}

cut_input(enc, v, cut) ==
    [bytes |-> take(enc, wrapping_sub(slice_len(enc), usz(cut))), v |-> v,
     cut |-> cut]

cut_inputs(enc, v) ==
    {cut_input(enc, v, c) : c \in {c \in Cuts : ~less(slice_len(enc), usz(c))}}

tag_inputs(tags) ==
    {[bytes |-> extend_from_slice(bytes(<<t>>), fill(1, n)), v |-> NoInput,
      cut |-> 0] : t \in tags, n \in {0, 70}}

\* An input is decoded as a value of one of the unions.
UnionDecode ==
    /\ pc = "idle"
    /\ \/ \E i \in UNION {cut_inputs(MultiAddress_encode(v), v) :
                            v \in MultiAddressValues}
                    \cup tag_inputs({5, 6, 132, 255}) :
            /\ fn' = "MultiAddress::decode"
            /\ inp' = i
            /\ out' = [dec |-> MultiAddress_decode(i.bytes)]
       \/ \E i \in UNION {cut_inputs(MultiSignature_encode(v), v) :
                            v \in MultiSignatureValues}
                    \cup tag_inputs({3, 4, 255}) :
            /\ fn' = "MultiSignature::decode"
            /\ inp' = i
            /\ out' = [dec |-> MultiSignature_decode(i.bytes)]
       \/ \E i \in UNION {cut_inputs(bytes(Era_encode(v)), v) : v \in EraValues}
                    \cup tag_inputs({2, 3, 255}) :
            /\ fn' = "Era::decode"
            /\ inp' = i
            /\ out' = [dec |-> Era_decode(i.bytes)]
    /\ pc' = "applied"
    /\ UNCHANGED <<res_kind, rc, result, failures, heap, held, first>>
    /\ UNCHANGED <<TOKIO, threads, runtimes>>

CodecNext ==
    \/ CompactU32
    \/ CompactU128
    \/ LengthPrefix
    \/ UnionEncode
    \/ UnionDecode

CodecSpec == Init /\ [][CodecNext]_vars

\* ------------------------------------------------------------------------
\* Properties
\* ------------------------------------------------------------------------

IsCodec == fn \in {"encode_unsigned_extrinsic", "encode_signed_extrinsic",
                   "make_signing_payload"}

\* The call passed a real argument buffer with its length, and places for
\* the output.
ArgsValid ==
    /\ ~inp.arguments_ptr.null
    /\ inp.arguments_len = slice_len(inp.arguments_ptr.mem)
OutPtrsValid == ~inp.out_ptr_null /\ ~inp.out_len_null

HasLen(p, n) == ~p.null /\ slice_len(p.mem) = usz(n)

\* compact(v) of the format, for a length v given as a usize.
CompactOfLen(v) == bytes(compact_u128(cast(v, 16)))

MortalityUnion ==
    IF inp.era_mortal THEN <<1, inp.era_period, inp.era_phase>> ELSE <<0>>

\* C1: with all pointers non-null, encode_unsigned_extrinsic returns 0 and
\* emits exactly compact(3+N) ++ [0x04, pallet_index, call_index] ++ arguments
\* for every argument byte sequence of length N.
C1_UnsignedLayout ==
    (fn = "encode_unsigned_extrinsic" /\ ArgsValid /\ OutPtrsValid) =>
        /\ pc = "returned"
        /\ rc = 0
        /\ out.written
        /\ out.buf =
             concat(<< CompactOfLen(wrapping_add(inp.arguments_len, usz(3))),
                       bytes(<<4, inp.module_index, inp.function_index>>),
                       inp.arguments_ptr.mem >>)

\* The signed body the format prescribes for the parameters of the call.
SignedBody ==
    concat(<< bytes(<<132, 0>>),
              inp.signer_ptr.mem,
              bytes(<<1>>),
              inp.signature_ptr.mem,
              bytes(MortalityUnion),
              bytes(compact_u32(inp.nonce)),
              bytes(compact_u128(inp.tip_low \o inp.tip_high)),
              bytes(<<inp.module_index, inp.function_index>>),
              inp.arguments_ptr.mem >>)

SignedInputsValid ==
    /\ fn = "encode_signed_extrinsic"
    /\ ArgsValid
    /\ OutPtrsValid
    /\ HasLen(inp.signer_ptr, 32)
    /\ HasLen(inp.signature_ptr, 64)

\* C2: for every 32-byte signer, 64-byte signature, nonce, tip, mortality and
\* call, encode_signed_extrinsic returns 0 and emits compact(len(body)) ++ body
\* with body = 0x84 ++ 0x00 ++ signer ++ 0x01 ++ signature ++ mortality ++
\* compact(nonce) ++ compact(tip) ++ pallet_index ++ call_index ++ arguments.
C2_SignedLayout ==
    SignedInputsValid =>
        /\ pc = "returned"
        /\ rc = 0
        /\ out.written
        /\ out.buf = extend_from_slice(CompactOfLen(slice_len(SignedBody)),
                                       SignedBody)

PayloadInputsValid ==
    /\ fn = "make_signing_payload"
    /\ ArgsValid
    /\ OutPtrsValid
    /\ HasLen(inp.genesis_hash_ptr, 32)
    /\ HasLen(inp.block_hash_ptr, 32)

\* The concatenation the format prescribes for the signing payload.
SpecConcatenation ==
    concat(<< bytes(<<inp.module_index, inp.function_index>>),
              inp.arguments_ptr.mem,
              bytes(MortalityUnion),
              bytes(compact_u32(inp.nonce)),
              bytes(compact_u128(inp.tip_low \o inp.tip_high)),
              bytes(inp.spec_version),
              bytes(inp.transaction_version),
              inp.genesis_hash_ptr.mem,
              inp.block_hash_ptr.mem >>)

\* C3: when the concatenation is at most 256 bytes, make_signing_payload
\* returns exactly pallet_index, call_index, the argument bytes as supplied
\* (nothing inserted before them), mortality, compact(nonce), compact(tip),
\* spec_version, transaction_version, genesis_hash, recent_block_hash.
C3_PayloadOrder ==
    (PayloadInputsValid /\ ~less(usz(256), slice_len(SpecConcatenation))) =>
        /\ pc = "returned"
        /\ rc = 0
        /\ out.buf = SpecConcatenation

\* The concatenation make_signing_payload builds from the parameters of the
\* call (the encoded tuple, before the length test).
BuiltConcatenation ==
    payload_encode(
        [module_index |-> inp.module_index,
         function_index |-> inp.function_index,
         arguments |-> from_raw_parts(inp.arguments_ptr, inp.arguments_len)],
        Era(inp.era_mortal, inp.era_period, inp.era_phase),
        inp.nonce, tip_u128(inp.tip_low, inp.tip_high), inp.spec_version,
        inp.transaction_version,
        from_raw_parts(inp.genesis_hash_ptr, usz(32)),
        from_raw_parts(inp.block_hash_ptr, usz(32)))

PayloadReturned == fn = "make_signing_payload" /\ pc = "returned" /\ rc = 0

\* C4: make_signing_payload chooses its output form from the length of the
\* concatenation it builds alone: longer than 256 bytes, the output is the
\* 32-byte blake2-256 digest of the concatenation; 256 bytes or shorter
\* (exactly 256 included), the output is the concatenation itself, of the
\* same length.
C4_LengthDecidesForm ==
    PayloadReturned =>
        /\ out.written
        /\ out.len = slice_len(out.buf)
        /\ IF less(usz(256), slice_len(BuiltConcatenation))
           THEN /\ out.buf = blake2_256(BuiltConcatenation)
                /\ out.len = usz(32)
           ELSE /\ out.buf = BuiltConcatenation
                /\ out.len = slice_len(BuiltConcatenation)

\* C4 witness: a call whose concatenation is exactly 256 bytes long returned
\* it unhashed.
C4_Witness ==
    /\ PayloadReturned
    /\ slice_len(BuiltConcatenation) = usz(256)
    /\ out.buf = BuiltConcatenation

\* The bytes encode_signed_extrinsic emits for the call of these parameters:
\* the last 2 + N bytes of its output (signer, signature and extra do not
\* bear on them).
SignedCallBytes ==
    LET signed == encode_signed_closure(inp.module_index, inp.function_index,
                      inp.arguments_ptr, inp.arguments_len,
                      ptr(Signer32, -1), ptr(Signature64, -1), inp.nonce,
                      inp.tip_low, inp.tip_high, inp.era_mortal,
                      inp.era_period, inp.era_phase, FALSE, FALSE).out
        n == wrapping_add(inp.arguments_len, usz(2))
    IN  skip(signed, wrapping_sub(slice_len(signed), n))

\* C5: for the same pallet index, call index and argument bytes, the call
\* bytes at the start of the raw signing payload are byte-identical to the
\* call bytes at the end of the body of the signed extrinsic.
C5_SameCallBytes ==
    (PayloadReturned /\ ArgsValid
       /\ ~less(usz(256), slice_len(BuiltConcatenation))) =>
        take(out.buf, wrapping_add(inp.arguments_len, usz(2))) = SignedCallBytes

\* C6: for every output of encode_unsigned_extrinsic and
\* encode_signed_extrinsic, compact-decoding the start of the output yields
\* the number of bytes that follow the prefix, for every argument length.
C6_PrefixIsBodyLength ==
    (fn \in {"encode_unsigned_extrinsic", "encode_signed_extrinsic"}
       /\ pc = "returned" /\ rc = 0) =>
        LET d == decode_compact(to_seq(take(out.buf, usz(17))))
        IN  /\ d.ok
            /\ slice_len(out.buf) = wrapping_add(usz(d.used), cast(d.val, 8))

\* C7: encode_signed_extrinsic called with a signer that is not 32 bytes long
\* (31 or 33) or a signature that is not 64 bytes long fails with an error;
\* it never succeeds by reading, truncating or padding the input.  (Stated
\* on the calls that come back to the host.)
C7_WrongSizeRejected ==
    (fn = "encode_signed_extrinsic" /\ pc = "returned"
       /\ ArgsValid /\ OutPtrsValid
       /\ ~inp.signer_ptr.null /\ ~inp.signature_ptr.null
       /\ (~HasLen(inp.signer_ptr, 32) \/ ~HasLen(inp.signature_ptr, 64))) =>
        /\ rc = 1
        /\ ~out.written

\* C8: make_signing_payload called with a null or shorter-than-32-byte
\* genesis hash or block hash reports an error and produces no payload; it
\* never fills the missing bytes with zeros or other data.  (Stated on the
\* calls that come back to the host.)
C8_ShortHashRejected ==
    (fn = "make_signing_payload" /\ pc = "returned"
       /\ ArgsValid /\ OutPtrsValid
       /\ (\/ inp.genesis_hash_ptr.null
           \/ inp.block_hash_ptr.null
           \/ less(slice_len(inp.genesis_hash_ptr.mem), usz(32))
           \/ less(slice_len(inp.block_hash_ptr.mem), usz(32)))) =>
        /\ rc = 1
        /\ ~out.written

\* C9: a panic raised inside the body of any exported function is caught and
\* turned into a failure result (return code 1, or success = false with an
\* error message); it never leaves the function.
C9_PanicCaught ==
    res_kind = "Panic" =>
        /\ pc = "returned"
        /\ IF IsCodec THEN rc = 1
           ELSE ~result.success /\ result.data.null /\ ~result.error.null

\* C10: every failure of the three codec functions carries a reason that
\* tells the error categories apart: two failures of different categories
\* (a required pointer rejected as null, which is a caller contract
\* violation, and a caught panic raised by an input the encoder cannot
\* hold) never return the same failure value.
C10_FailuresDistinguished ==
    \A f, g \in failures : f.kind # g.kind => f.rc # g.rc

\* ------------------------------------------------------------------------
\* Properties of the codec of the derived types (CodecSpec)
\* ------------------------------------------------------------------------

IsCompact == fn \in {"Compact<u32>", "Compact<u128>", "length_prefix"}

\* The value that was encoded, as a u128.
CompactValue == cast(inp.v, 16)

\* C11: for every unsigned integer v up to 128 bits, decoding the compact
\* encoding of v returns v and consumes exactly the bytes of the encoding.
C11_CompactRoundTrip ==
    (pc = "applied" /\ IsCompact) =>
        /\ out.dec.ok
        /\ out.dec.val = CompactValue
        /\ out.dec.used = Len(out.enc)

C11_Witness ==
    /\ pc = "applied" /\ fn = "Compact<u128>"
    /\ inp.v = U128_MAX /\ inp.trailing = <<255>>
    /\ out.dec.ok /\ out.dec.val = U128_MAX /\ out.dec.used = 17

\* The number of bytes the format prescribes for the compact encoding of v.
CompactWidth(v) ==
    IF less(v, u128(64)) THEN 1
    ELSE IF less(v, u128(16384)) THEN 2
    ELSE IF less(v, pow2(30)) THEN 4
    ELSE 1 + bytes_needed(v)

\* C12: the compact encoding of v is 1 byte for 0..=63, 2 bytes for
\* 64..=16383, 4 bytes for 16384..=2^30-1 and 1+k bytes for larger v, k the
\* minimal number of bytes holding v (k >= 4); the length prefix of an
\* extrinsic changes its width at exactly these body lengths.
C12_ModeBoundaries ==
    (pc = "applied" /\ IsCompact) =>
        /\ Len(out.enc) = CompactWidth(CompactValue)
        /\ ~less(CompactValue, pow2(30)) => bytes_needed(CompactValue) >= 4

C12_Witness ==
    /\ pc = "applied" /\ fn = "length_prefix"
    /\ inp.v = u128(16384) /\ Len(out.enc) = 4

\* The discriminant bytes the protocol fixes.
AddressTag == [Id |-> 0, Index |-> 1, Raw |-> 2, Address32 |-> 3, Address20 |-> 4]
SignatureTag == [Ed25519 |-> 0, Sr25519 |-> 1, Ecdsa |-> 2]

\* The number of payload bytes the format states for a variant.
PayloadSize(v) ==
    IF v.variant \in {"Id", "Address32"} THEN usz(32)
    ELSE IF v.variant = "Address20" THEN usz(20)
    ELSE IF v.variant \in {"Ed25519", "Sr25519"} THEN usz(64)
    ELSE IF v.variant = "Ecdsa" THEN usz(65)
    ELSE IF v.variant = "Index" THEN usz(CompactWidth(cast(v.val, 16)))
    ELSE wrapping_add(usz(CompactWidth(cast(slice_len(v.val), 16))),
                      slice_len(v.val))

\* C13: the union discriminants are the protocol-fixed bytes (addressing:
\* Id=0, Index=1, Raw=2, Address32=3, Address20=4; signature: Ed25519=0,
\* Sr25519=1, Ecdsa=2; mortality: Immortal=0 with no payload, Mortal=1
\* followed by exactly the two bytes period, phase), and each variant encodes
\* as its discriminant byte followed by its payload of the stated size.
C13_UnionDiscriminants ==
    /\ (pc = "applied" /\ fn = "MultiAddress::encode") =>
        /\ take(out.enc, usz(1)) = bytes(<<AddressTag[inp.v.variant]>>)
        /\ slice_len(out.enc) = wrapping_add(usz(1), PayloadSize(inp.v))
        /\ inp.v.variant \in {"Id", "Address32", "Address20"} =>
              skip(out.enc, usz(1)) = inp.v.val
        /\ inp.v.variant = "Raw" =>
              skip(out.enc, wrapping_sub(slice_len(out.enc), slice_len(inp.v.val)))
                 = inp.v.val
    /\ (pc = "applied" /\ fn = "MultiSignature::encode") =>
        /\ take(out.enc, usz(1)) = bytes(<<SignatureTag[inp.v.variant]>>)
        /\ slice_len(out.enc) = wrapping_add(usz(1), PayloadSize(inp.v))
        /\ skip(out.enc, usz(1)) = inp.v.val
    /\ (pc = "applied" /\ fn = "Era::encode") =>
        out.enc = IF inp.v.mortal THEN bytes(<<1, inp.v.period, inp.v.phase>>)
                  ELSE bytes(<<0>>)

C13_Witness ==
    /\ pc = "applied" /\ fn = "Era::encode"
    /\ inp.v.mortal /\ inp.v.period = 64 /\ inp.v.phase = 5
    /\ out.enc = bytes(<<1, 64, 5>>)

IsUnionDecode ==
    fn \in {"MultiAddress::decode", "MultiSignature::decode", "Era::decode"}

\* The number of variants a union declares.
VariantCount ==
    IF fn = "MultiAddress::decode" THEN 5
    ELSE IF fn = "MultiSignature::decode" THEN 3
    ELSE 2

\* C14: decoding a tagged union whose first byte is outside the declared
\* discriminant range (>= 5, >= 3, >= 2 for addressing, signature,
\* mortality), or whose payload is shorter than the variant requires, fails
\* with an error value and yields no variant.
C14_MalformedUnionRejected ==
    (pc = "applied" /\ IsUnionDecode
       /\ \/ inp.cut > 0
          \/ (inp.bytes # <<>> /\ inp.bytes[1].b >= VariantCount)) =>
        ~out.dec.ok

C14_Witness ==
    /\ pc = "applied" /\ fn = "MultiAddress::decode"
    /\ inp.cut = 1 /\ inp.v = Variant("Id", Signer32)
    /\ slice_len(inp.bytes) = usz(32)
    /\ ~out.dec.ok

\* ------------------------------------------------------------------------
\* Properties of the exported functions, continued (Spec)
\* ------------------------------------------------------------------------

\* The triple a call of an encoder was made with.
CallTriple ==
    [module_index |-> inp.module_index, function_index |-> inp.function_index,
     arguments |-> inp.arguments_ptr.mem]

\* The parts of an emitted extrinsic: what follows the length prefix, and the
\* call bytes at its end.
EmittedBody == skip(out.buf, usz(decode_compact(to_seq(take(out.buf, usz(17)))).used))
EmittedCallBytes ==
    skip(out.buf, wrapping_sub(slice_len(out.buf),
                               wrapping_add(inp.arguments_len, usz(2))))

\* Decoding x as a Call gives the triple of the call.
CallDecodesFrom(x) ==
    LET d == Call_decode(x)
    IN  d.ok /\ d.val = CallTriple

\* Decoding x as an ExtrinsicV4 gives an extrinsic whose function is the
\* triple of the call.
ExtrinsicDecodesFrom(x) ==
    LET d == ExtrinsicV4_decode(x)
    IN  d.ok /\ d.val.function = CallTriple

\* C15: decoding the call / extrinsic bytes that the encoders emit for a
\* pallet index, call index and argument bytes with the repository's decoder
\* (Call, ExtrinsicV4) returns the same pallet index, call index and argument
\* bytes.
C15_CallDecodeRoundTrip ==
    (fn \in {"encode_unsigned_extrinsic", "encode_signed_extrinsic"}
       /\ pc = "returned" /\ rc = 0 /\ ArgsValid) =>
        \/ CallDecodesFrom(EmittedCallBytes)
        \/ ExtrinsicDecodesFrom(EmittedBody)
        \/ ExtrinsicDecodesFrom(out.buf)

EncoderCalled ==
    /\ pc = "idle"
    /\ fn' \in {"encode_unsigned_extrinsic", "encode_signed_extrinsic",
                "make_signing_payload"}
    /\ pc' = "returned"

\* C17: every call of the three encoders that returns 0 allocates exactly one
\* buffer and hands the caller its pointer and a length equal to the number
\* of encoded bytes; every call that returns 1 allocates none; once the
\* caller has released each returned buffer once, with its pointer and
\* length, no buffer produced by the library is live, for any sequence of
\* encode and release calls.
C17_BufferOwnership ==
    /\ [](heap = held)
    /\ []((pc = "returned" /\ IsCodec /\ rc = 0) =>
            /\ out.written
            /\ out.len = slice_len(out.buf)
            /\ [addr |-> out.ptr, len |-> slice_len(out.buf)] \in heap)
    /\ [][EncoderCalled =>
            /\ rc' = 0 => /\ Cardinality(heap') = Cardinality(heap) + 1
                          /\ heap \subseteq heap'
            /\ rc' = 1 => heap' = heap]_vars

C17_Witness ==
    /\ pc = "returned" /\ fn = "free_encoded_extrinsic"
    /\ inp.ptr = MaxHeld + 1
    /\ heap = {} /\ held = {}

\* The exported functions that return an ExtrinsicResult or a
\* TransferResult.
ReturnsResult ==
    fn \in {"polkadot_ffi::sign_extrinsic", "polkadot_ffi_subxt::sign_extrinsic",
            "polkadot_ffi::derive_sr25519_from_mnemonic",
            "polkadot_ffi_subxt::derive_sr25519_from_mnemonic",
            "submit_balance_transfer_subxt"}

\* The value of the string field called name of the JSON object js: the
\* characters between "name":" and the next quote.
JsonField(js, name) ==
    LET key == <<"\"">> \o name \o <<"\"", ":", "\"">>
        at == {k \in 1..Len(js) :
                 k + Len(key) - 1 <= Len(js)
                 /\ SubSeq(js, k, k + Len(key) - 1) = key}
    IN  IF at = {} THEN <<>>
        ELSE LET from == (CHOOSE k \in at : \A j \in at : k <= j) + Len(key)
                 upto == CHOOSE k \in from..Len(js) :
                            js[k] = "\"" /\ \A j \in from..(k - 1) : js[j] # "\""
             IN  SubSeq(js, from, upto - 1)

\* C18: every ExtrinsicResult / TransferResult returned by an exported
\* function is well-formed: success = true implies a non-null data (tx_hash)
\* pointer and a null error pointer, success = false implies a null data
\* (tx_hash) pointer and a non-null error pointer; derive_sr25519_from_mnemonic
\* on a valid mnemonic returns success with a JSON object whose seed and
\* public fields both start with "0x".
C18_ResultWellFormed ==
    (pc = "returned" /\ ReturnsResult) =>
        /\ result.success => (~result.data.null /\ result.error.null)
        /\ ~result.success => (result.data.null /\ ~result.error.null)
        /\ (fn \in {"polkadot_ffi::derive_sr25519_from_mnemonic",
                    "polkadot_ffi_subxt::derive_sr25519_from_mnemonic"}
              /\ phrase_ok(inp.phrase)) =>
              /\ result.success
              /\ starts_with_0x(JsonField(result.data.str, <<"s", "e", "e", "d">>))
              /\ starts_with_0x(JsonField(result.data.str,
                                          <<"p", "u", "b", "l", "i", "c">>))

C18_Witness ==
    /\ pc = "returned"
    /\ fn = "polkadot_ffi_subxt::derive_sr25519_from_mnemonic"
    /\ inp.phrase = TestPhrase
    /\ result.success /\ ~result.data.null /\ result.error.null
    /\ Len(JsonField(result.data.str, <<"s", "e", "e", "d">>)) = 66

\* 4 * v + mode on 128-bit values.
ShiftedIn(v, mode) ==
    wrapping_add(wrapping_add(wrapping_add(v, v), wrapping_add(v, v)), u128(mode))

\* The mode the format prescribes for v: 0, 1, 2 for the 1-, 2- and 4-byte
\* modes, 3 for the big-integer mode.
CompactMode(v) ==
    IF less(v, u128(64)) THEN 0
    ELSE IF less(v, u128(16384)) THEN 1
    ELSE IF less(v, pow2(30)) THEN 2
    ELSE 3

\* C19: compact wire format.  The low two bits of the first encoded byte are
\* 00, 01, 10 for the 1-, 2- and 4-byte modes and the little-endian integer
\* of the encoded bytes is 4 * value + mode (the value is that integer
\* shifted right by two); for values >= 2^30 the first byte has low two bits
\* 11 and upper six bits k - 4, followed by exactly k bytes, the minimal
\* little-endian representation of the value (its last byte is not zero), for
\* every value up to 2^128 - 1.
C19_CompactWireFormat ==
    (pc = "applied" /\ IsCompact) =>
        LET v == CompactValue
            e == out.enc
            k == bytes_needed(v)
        IN  /\ e[1] % 4 = CompactMode(v)
            /\ CompactMode(v) < 3 =>
                  /\ Len(e) = 2 ^ CompactMode(v)
                  /\ cast(e, 16) = ShiftedIn(v, CompactMode(v))
            /\ CompactMode(v) = 3 =>
                  /\ e[1] \div 4 = k - 4
                  /\ Tail(e) = SubSeq(v, 1, k)
                  /\ e[Len(e)] # 0

C19_Witness ==
    /\ pc = "applied" /\ fn = "Compact<u128>"
    /\ inp.v = U128_MAX
    /\ out.enc = <<51>> \o U128_MAX

\* ------------------------------------------------------------------------
\* The extra segment of the signed extrinsic and of the signing payload
\* ------------------------------------------------------------------------

\* The number of bytes of the compact integer a buffer starts with, read
\* from the mode bits of its first byte.
CompactWidthAt(buf) ==
    LET b == to_seq(take(buf, usz(1)))[1]
    IN  IF b % 4 = 0 THEN 1
        ELSE IF b % 4 = 1 THEN 2
        ELSE IF b % 4 = 2 THEN 4
        ELSE 5 + b \div 4

\* What a signed extrinsic holds between the 64 signature bytes and the call:
\* after the length prefix come the version byte, the address tag, 32 signer
\* bytes, the signature tag and 64 signature bytes; the call at the end is two
\* index bytes and the arguments.
SignedExtra(buf, arguments_len) ==
    LET rest == skip(buf, usz(CompactWidthAt(buf) + 1 + 1 + 32 + 1 + 64))
    IN  to_seq(take(rest, wrapping_sub(wrapping_sub(slice_len(rest), usz(2)),
                                       arguments_len)))

\* What a raw signing payload holds between the call bytes and spec_version:
\* the call is two index bytes and the length-prefixed arguments; the payload
\* ends with two u32 versions and two 32-byte hashes.
PayloadExtra(buf, arguments_len) ==
    LET args == skip(buf, usz(2))
        rest == skip(skip(args, usz(CompactWidthAt(args))), arguments_len)
    IN  to_seq(take(rest, wrapping_sub(slice_len(rest), usz(4 + 4 + 32 + 32))))

\* A payload that was written out raw: a hashed one has 32 bytes, a raw one
\* at least 78.
IsRaw(buf) == slice_len(buf) # usz(32)

\* seg is the mortality union, then compact(nonce), then compact(tip), of
\* the call c, and nothing else.
ExtraInOrder(seg, c) ==
    LET era_len == IF c.era_mortal THEN 3 ELSE 1
        after_era == SubSeq(seg, era_len + 1, Len(seg))
        n == decode_compact_u32(after_era)
        after_nonce == SubSeq(after_era, n.used + 1, Len(after_era))
        t == decode_compact(after_nonce)
    IN  /\ Len(seg) >= era_len
        /\ SubSeq(seg, 1, era_len) =
              (IF c.era_mortal THEN <<1, c.era_period, c.era_phase>> ELSE <<0>>)
        /\ n.ok /\ n.val = cast(c.nonce, 16)
        /\ t.ok /\ t.val = c.tip_low \o c.tip_high
        /\ t.used = Len(after_nonce)

\* C20: for the same mortality, nonce and tip, the bytes mortality_union ++
\* compact(nonce) ++ compact(tip) that follow the 64 signature bytes in the
\* signed extrinsic are the same bytes, in the same field order, as the ones
\* that follow the call bytes in the raw signing payload.
C20_ExtraSegmentAgrees ==
    (/\ pc = "returned" /\ fn = "encode_signed_extrinsic" /\ rc = 0
     /\ first # NoFirst /\ first.fn = "make_signing_payload" /\ first.rc = 0
     /\ IsRaw(first.buf) /\ SameExtra(first.inp, inp)) =>
        /\ ExtraInOrder(SignedExtra(out.buf, inp.arguments_len), inp)
        /\ ExtraInOrder(PayloadExtra(first.buf, first.inp.arguments_len), inp)
        /\ SignedExtra(out.buf, inp.arguments_len)
              = PayloadExtra(first.buf, first.inp.arguments_len)

C20_Witness ==
    /\ pc = "returned" /\ fn = "encode_signed_extrinsic" /\ rc = 0
    /\ first # NoFirst /\ first.fn = "make_signing_payload" /\ first.rc = 0
    /\ IsRaw(first.buf) /\ SameExtra(first.inp, inp)
    /\ first.inp.arguments_len # inp.arguments_len
    /\ inp.era_mortal /\ inp.nonce = u32(1073741824)
    /\ inp.tip_low = U64_MAX /\ inp.tip_high = U64_MAX
    /\ Len(SignedExtra(out.buf, inp.arguments_len)) = 3 + 5 + 17
    /\ PayloadExtra(first.buf, first.inp.arguments_len)
          = SignedExtra(out.buf, inp.arguments_len)

\* ------------------------------------------------------------------------
\* The fixed-width tail of the signing payload
\* ------------------------------------------------------------------------

\* The last k bytes of a buffer (the whole buffer when it is shorter).
LastBytes(buf, k) ==
    IF less(slice_len(buf), usz(k)) THEN buf
    ELSE skip(buf, wrapping_sub(slice_len(buf), usz(k)))

\* The caller handed in two hashes of 32 bytes.
HashesGiven ==
    /\ slice_len(inp.genesis_hash_ptr.mem) = usz(32)
    /\ slice_len(inp.block_hash_ptr.mem) = usz(32)

\* C21: whenever make_signing_payload returns the raw form, its last 72
\* bytes are spec_version as 4 little-endian bytes, transaction_version as 4
\* little-endian bytes, the 32 genesis-hash bytes and the 32 block-hash
\* bytes, in that order; each version takes exactly 4 bytes, also for small
\* values such as 0 or 1.
C21_FixedWidthTail ==
    (PayloadReturned /\ IsRaw(out.buf)) =>
        /\ ~less(slice_len(out.buf), usz(72 + 6))
        /\ to_seq(take(LastBytes(out.buf, 72), usz(8)))
              = inp.spec_version \o inp.transaction_version
        /\ HashesGiven =>
              LastBytes(out.buf, 64)
                 = extend_from_slice(inp.genesis_hash_ptr.mem,
                                     inp.block_hash_ptr.mem)

C21_Witness ==
    /\ PayloadReturned /\ IsRaw(out.buf) /\ HashesGiven
    /\ inp.spec_version = u32(1) /\ inp.transaction_version = u32(0)
    /\ to_seq(take(LastBytes(out.buf, 72), usz(8))) = <<1, 0, 0, 0, 0, 0, 0, 0>>
    /\ LastBytes(out.buf, 64) = extend_from_slice(Hash32, BlockHash32)

\* ------------------------------------------------------------------------
\* Mortality is passed through
\* ------------------------------------------------------------------------

\* The output of the function of the state for the call c.
OutputFor(c) ==
    IF fn = "encode_signed_extrinsic"
    THEN encode_signed_closure(c.module_index, c.function_index,
            c.arguments_ptr, c.arguments_len, c.signer_ptr, c.signature_ptr,
            c.nonce, c.tip_low, c.tip_high, c.era_mortal, c.era_period,
            c.era_phase, c.out_ptr_null, c.out_len_null)
    ELSE make_signing_payload_closure(c.module_index, c.function_index,
            c.arguments_ptr, c.arguments_len, c.nonce, c.tip_low, c.tip_high,
            c.era_mortal, c.era_period, c.era_phase, c.spec_version,
            c.transaction_version, c.genesis_hash_ptr, c.block_hash_ptr,
            c.out_ptr_null, c.out_len_null)

\* The bytes between the signature (the call, in a payload) and the versions
\* (the call, in an extrinsic).
ExtraOfOutput ==
    IF fn = "encode_signed_extrinsic"
    THEN SignedExtra(out.buf, inp.arguments_len)
    ELSE PayloadExtra(out.buf, inp.arguments_len)

\* C22: mortality is passed through unvalidated.  With era_mortal = true,
\* for every era_period and era_phase in 0..=255 (also phase >= period and a
\* period that is no power of two) encode_signed_extrinsic and
\* make_signing_payload succeed and emit [0x01, period, phase] unchanged;
\* with era_mortal = false they emit the single byte 0x00 and the output
\* does not depend on era_period or era_phase.
C22_MortalityPassedThrough ==
    (fn \in {"encode_signed_extrinsic", "make_signing_payload"}) =>
        /\ pc = "returned" /\ rc = 0 /\ out.written
        /\ IsRaw(out.buf)
        /\ inp.era_mortal =>
              /\ SubSeq(ExtraOfOutput, 1, 3) = <<1, inp.era_period, inp.era_phase>>
              /\ Len(ExtraOfOutput) = 3 + 2 + 1
        /\ ~inp.era_mortal =>
              /\ SubSeq(ExtraOfOutput, 1, 1) = <<0>>
              /\ Len(ExtraOfOutput) = 1 + 2 + 1
              /\ Ok(out.buf)
                    = OutputFor([inp EXCEPT !.era_period = 0, !.era_phase = 0])
        /\ SubSeq(ExtraOfOutput, Len(ExtraOfOutput) - 2, Len(ExtraOfOutput))
              = <<1, 1, 4>>

C22_Witness ==
    /\ pc = "returned" /\ rc = 0 /\ fn = "make_signing_payload"
    /\ inp.era_mortal /\ inp.era_period = 3 /\ inp.era_phase = 200
    /\ SubSeq(ExtraOfOutput, 1, 3) = <<1, 3, 200>>

\* ------------------------------------------------------------------------
\* Null pointers
\* ------------------------------------------------------------------------

HasField(c, f) == f \in DOMAIN c

\* A required pointer of the call c is null.
AnyNull(c) ==
    \/ c.arguments_ptr.null \/ c.out_ptr_null \/ c.out_len_null
    \/ HasField(c, "signer_ptr") /\ (c.signer_ptr.null \/ c.signature_ptr.null)
    \/ HasField(c, "genesis_hash_ptr")
         /\ (c.genesis_hash_ptr.null \/ c.block_hash_ptr.null)

\* C23: if any required pointer is null (arguments, signer, signature,
\* genesis hash, block hash, out_ptr or out_len, as applicable), each of
\* encode_unsigned_extrinsic, encode_signed_extrinsic and
\* make_signing_payload returns 1, allocates no buffer and leaves *out_ptr
\* and *out_len unwritten, also for a null arguments pointer passed with
\* arguments_len = 0.
C23_NullRejected ==
    [][(/\ pc = "idle"
        /\ fn' \in {"encode_unsigned_extrinsic", "encode_signed_extrinsic",
                    "make_signing_payload"}
        /\ AnyNull(inp')) =>
           (/\ pc' = "returned" /\ rc' = 1
            /\ ~out'.written
            /\ heap' = heap /\ held' = held)]_vars

C23_Witness ==
    /\ pc = "returned" /\ rc = 1 /\ fn = "make_signing_payload"
    /\ inp.arguments_ptr.null /\ inp.arguments_len = usz(0)
    /\ ~inp.genesis_hash_ptr.null /\ ~inp.block_hash_ptr.null
    /\ ~inp.out_ptr_null /\ ~inp.out_len_null
    /\ ~out.written
    /\ Cardinality(heap) = 1 /\ heap = held

\* ------------------------------------------------------------------------
\* Release without a record of live buffers
\* ------------------------------------------------------------------------

Released(p, len) == [addr |-> p, len |-> len]

FreeCalled == fn' = "free_encoded_extrinsic" /\ pc \in {"idle", "returned"}

\* C24: free_encoded_extrinsic keeps no record of live buffers.  Called with
\* a null pointer it changes nothing; called with a non-null pointer it
\* releases unconditionally, so encode -> release -> release of the same
\* buffer reaches a double-free state that the core neither detects nor
\* rejects (no return value, no failure recorded): safe use relies on the
\* caller releasing each buffer exactly once.
C24_ReleaseUnchecked ==
    /\ [][(FreeCalled /\ inp'.ptr = 0) =>
             (heap' = heap /\ pc' = "returned" /\ res_kind' = "none")]_vars
    /\ [][(FreeCalled /\ inp'.ptr # 0 /\ Released(inp'.ptr, inp'.len) \in heap) =>
             (/\ heap' = heap \ {Released(inp'.ptr, inp'.len)}
              /\ pc' = "returned" /\ res_kind' = "none")]_vars
    /\ [][(FreeCalled /\ inp'.ptr # 0 /\ Released(inp'.ptr, inp'.len) \notin heap) =>
             (/\ res_kind' = "Undefined"
              /\ pc' \in {"crashed", "corrupted"}
              /\ rc' = -1 /\ failures' = failures)]_vars
    /\ [](res_kind = "Undefined" => fn = "free_encoded_extrinsic")

C24_Witness ==
    /\ fn = "free_encoded_extrinsic" /\ res_kind = "Undefined"
    /\ pc = "corrupted"
    /\ inp.ptr # 0 /\ Released(inp.ptr, inp.len) \notin heap
    /\ failures = {}

\* ------------------------------------------------------------------------
\* The tip and its two halves
\* ------------------------------------------------------------------------

RECURSIVE Times256(_, _)
\* x * 256^n on 128-bit values (bits shifted out at the top are lost).
Times256(x, n) ==
    IF n = 0 THEN x ELSE Times256(<<0>> \o SubSeq(x, 1, 15), n - 1)

\* tip_high * 2^64 + tip_low as a 128-bit value.
TipValue(lo, hi) == wrapping_add(Times256(cast(hi, 16), 8), cast(lo, 16))

\* The bytes of the output that follow the compact nonce.
TipBytes ==
    LET seg == ExtraOfOutput
        after_era == SubSeq(seg, (IF inp.era_mortal THEN 3 ELSE 1) + 1, Len(seg))
    IN  SubSeq(after_era, decode_compact_u32(after_era).used + 1, Len(after_era))

\* C25: the tip is reassembled without loss from its two 64-bit halves:
\* encode_signed_extrinsic and make_signing_payload both encode
\* compact(tip_high * 2^64 + tip_low); distinct (tip_low, tip_high) pairs give
\* distinct tips, no bit is dropped or wrapped, and tip_high = 0 yields
\* compact(tip_low).
C25_TipReassembled ==
    (fn \in {"encode_signed_extrinsic", "make_signing_payload"}
       /\ pc = "returned" /\ rc = 0 /\ IsRaw(out.buf)) =>
        /\ decode_compact(TipBytes).ok
        /\ decode_compact(TipBytes).used = Len(TipBytes)
        /\ decode_compact(TipBytes).val = TipValue(inp.tip_low, inp.tip_high)
        /\ TipBytes = compact_u128(TipValue(inp.tip_low, inp.tip_high))
        /\ is_zero(inp.tip_high) => TipBytes = compact_u128(cast(inp.tip_low, 16))
        /\ \A t \in TipPairs :
              t # <<inp.tip_low, inp.tip_high>> =>
                 /\ TipValue(t[1], t[2]) # TipValue(inp.tip_low, inp.tip_high)
                 /\ compact_u128(TipValue(t[1], t[2])) # TipBytes

C25_Witness ==
    /\ fn = "encode_signed_extrinsic" /\ pc = "returned" /\ rc = 0
    /\ inp.tip_low = u64(1) /\ inp.tip_high = u64(1)
    /\ TipBytes = <<3 + 4 * 5, 1, 0, 0, 0, 0, 0, 0, 0, 1>>

\* ------------------------------------------------------------------------
\* The two forms of the signing payload told apart by length
\* ------------------------------------------------------------------------

\* The shortest raw payload: two index bytes, the compact length of no
\* arguments, one era byte, one nonce byte, one tip byte, two versions and
\* two hashes.
ShortestRaw == usz(2 + 1 + 1 + 1 + 1 + 4 + 4 + 32 + 32)

DigestChosen == less(usz(256), slice_len(BuiltConcatenation))

\* C26: the output of a successful make_signing_payload call is never longer
\* than 256 bytes, and it is exactly 32 bytes long if and only if the digest
\* form was chosen (the shortest possible raw concatenation is longer than
\* 32 bytes), so the two forms can be told apart by length alone.
C26_FormsToldApartByLength ==
    PayloadReturned =>
        /\ ~less(usz(256), out.len)
        /\ out.len = slice_len(out.buf)
        /\ (out.len = usz(32)) <=> DigestChosen
        /\ ~DigestChosen => ~less(out.len, ShortestRaw)
        /\ ~less(slice_len(BuiltConcatenation), ShortestRaw)

C26_Witness ==
    /\ PayloadReturned /\ ~DigestChosen
    /\ out.len = ShortestRaw
    /\ inp.arguments_len = usz(0)

\* ------------------------------------------------------------------------
\* Submission and finalization
\* ------------------------------------------------------------------------

SubmittingFunctions ==
    {"submit_balance_transfer_subxt", "add_proxy", "remove_proxy", "proxy_call",
     "set_identity", "clear_identity"}

SubmitterReturned == pc = "returned" /\ fn \in SubmittingFunctions

\* How often a call was made to the chain client.
Times(steps, step) == Cardinality({k \in DOMAIN steps : steps[k] = step})

\* step a was made, and before step b.
Before(steps, a, b) ==
    \E i \in DOMAIN steps, j \in DOMAIN steps :
        i < j /\ steps[i] = a /\ steps[j] = b

\* C27: the submitting functions return success = true with a transaction
\* hash only after the transaction was submitted and the chain client
\* reported finalized success for it; a submit error or a finalization error
\* always yields success = false with a null tx_hash; a transaction is
\* submitted at most once per call.
C27_SuccessOnlyAfterFinalized ==
    SubmitterReturned =>
        /\ result.success =>
              /\ inp.net = "finalized"
              /\ Before(out.steps, "connect", "sign_and_submit")
              /\ Before(out.steps, "sign_and_submit", "wait_for_finalized_success")
              /\ ~result.data.null /\ result.error.null
              /\ starts_with_0x(result.data.str) /\ Len(result.data.str) = 2 + 64
        /\ (Times(out.steps, "sign_and_submit") = 1
              /\ inp.net \in {"submit_error", "not_finalized"}) =>
              (~result.success /\ result.data.null /\ ~result.error.null)
        /\ Times(out.steps, "sign_and_submit") <= 1
        /\ Times(out.steps, "connect") <= 1

C27_Witness ==
    /\ SubmitterReturned /\ fn = "clear_identity"
    /\ inp.net = "finalized" /\ result.success
    /\ out.steps = <<"connect", "sign_and_submit", "wait_for_finalized_success">>
    /\ Len(result.data.str) = 66

\* ------------------------------------------------------------------------
\* Local validation before the network
\* ------------------------------------------------------------------------

\* The call names a proxied call that proxy_call knows how to build.
SupportedProxyCall == inp.pallet = "Balances" /\ inp.call = "transfer_keep_alive"

\* The mnemonic of the call does not parse.
MnemonicUnparsable == ~phrase_ok(inp.phrase)

\* An address the call passes as a parameter of its own does not parse.
AddressParameterUnparsable ==
    \/ fn = "submit_balance_transfer_subxt" /\ inp.dest \notin ValidAddresses
    \/ fn \in {"add_proxy", "remove_proxy"} /\ inp.delegate \notin ValidAddresses
    \/ fn = "proxy_call" /\ inp.real_account \notin ValidAddresses

\* The destination address of the proxied transfer, passed in the JSON
\* arguments of proxy_call, does not parse.
ProxiedDestUnparsable ==
    /\ fn = "proxy_call" /\ SupportedProxyCall
    /\ inp.args.json_ok /\ inp.args.dest \notin ValidAddresses

\* C28: proxy_call with any pallet/call pair other than Balances /
\* transfer_keep_alive never signs or submits a transaction and always
\* returns success = false; and no submitting function connects to the node
\* or submits anything when its mnemonic or an address argument fails to
\* parse (local validation precedes every network step).
C28_LocalValidationFirst ==
    SubmitterReturned =>
        /\ (fn = "proxy_call" /\ ~SupportedProxyCall) =>
              (Times(out.steps, "sign_and_submit") = 0 /\ ~result.success)
        /\ (MnemonicUnparsable \/ AddressParameterUnparsable
              \/ ProxiedDestUnparsable) =>
              (out.steps = <<>> /\ ~result.success)

\* ------------------------------------------------------------------------
\* The multisig address does not depend on the order of the signatories
\* ------------------------------------------------------------------------

\* The lists with the same entries as l, in every order.
Reorderings(l) ==
    {[k \in 1..Len(l) |-> l[p[k]]] :
        p \in {q \in [1..Len(l) -> 1..Len(l)] :
                 \A i, j \in 1..Len(l) : i # j => q[i] # q[j]}}

AllParse(l) == \A k \in 1..Len(l) : l[k] \in ValidAddresses

\* The accounts of the signatories field of a returned object.
ReturnedAccounts == [k \in 1..Len(result.data.str.signatories) |->
                        result.data.str.signatories[k].ss58]

\* C29: create_multisig_address is insensitive to the order of its
\* signatories: for every permutation of the same list of valid addresses
\* and the same threshold it returns the same multisig_address and the same
\* signatories list, which is sorted ascending; any unparsable address makes
\* the whole call fail with success = false and no address.
C29_MultisigOrderInsensitive ==
    (pc = "returned" /\ fn = "create_multisig_address"
       /\ inp.signatories.json_ok) =>
        IF AllParse(inp.signatories.list)
        THEN /\ result.success /\ ~result.data.null
             /\ \A l \in Reorderings(inp.signatories.list) :
                   create_multisig_address(
                      [json_ok |-> TRUE, list |-> l], inp.threshold).val = result
             /\ Len(ReturnedAccounts) = Len(inp.signatories.list)
             /\ \A k \in 1..(Len(ReturnedAccounts) - 1) :
                   ~Ord_lt(ReturnedAccounts[k + 1], ReturnedAccounts[k])
             /\ \A k \in 1..Len(inp.signatories.list) :
                   \E j \in 1..Len(ReturnedAccounts) :
                      ReturnedAccounts[j]
                         = AccountId32_from_str(inp.signatories.list[k])
        ELSE ~result.success /\ result.data.null /\ ~result.error.null

C29_Witness ==
    /\ pc = "returned" /\ fn = "create_multisig_address" /\ result.success
    /\ inp.signatories.list =
          <<"5GrwvaEF5zXb26Fz9rcQpDWS57CtERHpNehXCPcNoHGKutQY",
            "5FHneW46xGXgs5mUiveU4sbTyGBzmstUspZC92UhjJM694ty",
            "5GrwvaEF5zXb26Fz9rcQpDWS57CtERHpNehXCPcNoHGKutQY">>
    /\ ReturnedAccounts[1][1] = 142 /\ ReturnedAccounts[2][1] = 212
    /\ ReturnedAccounts[3][1] = 212

\* ---------------------------------------------------------------------
\* tokio_rt() called from several threads
\* ---------------------------------------------------------------------

\* What a step of thread t leaves alone: the host's sequential calls.
OtherThreads(t, call) == threads' = [threads EXCEPT ![t] = call]

SequentialUnchanged == UNCHANGED <<pc, fn, inp, res_kind, rc, out, result, failures, heap, held, first>>

\* A thread enters an exported network function and reaches tokio_rt().
EnterTokioRt(t) ==
    /\ threads[t].at = "outside"
    /\ OtherThreads(t, [threads[t] EXCEPT !.at = "get_or_init"])
    /\ SequentialUnchanged
    /\ UNCHANGED <<TOKIO, runtimes>>

\* get_or_init, the fast path: the cell holds a value, which is returned.
GetInitialised(t) ==
    /\ threads[t].at = "get_or_init"
    /\ OnceLock_get(TOKIO) # 0
    /\ OtherThreads(t, [threads[t] EXCEPT !.at = "has",
                                          !.rt = OnceLock_get(TOKIO)])
    /\ SequentialUnchanged
    /\ UNCHANGED <<TOKIO, runtimes>>

\* get_or_init, the slow path: this thread is the one to run the closure.
ClaimOnce(t) ==
    /\ threads[t].at = "get_or_init"
    /\ OnceLock_get(TOKIO) = 0
    /\ Once_claims(TOKIO)
    /\ TOKIO' = [TOKIO EXCEPT !.once = "running"]
    /\ OtherThreads(t, [threads[t] EXCEPT !.at = "initialising"])
    /\ SequentialUnchanged
    /\ UNCHANGED runtimes

\* get_or_init, the slow path: another thread's closure is running, and this
\* thread is parked until it has ended.
WaitOnce(t) ==
    /\ threads[t].at = "get_or_init"
    /\ OnceLock_get(TOKIO) = 0
    /\ ~Once_claims(TOKIO)
    /\ OtherThreads(t, [threads[t] EXCEPT !.at = "waiting", !.waited = TRUE])
    /\ SequentialUnchanged
    /\ UNCHANGED <<TOKIO, runtimes>>

\* The running closure has ended: a parked thread looks at the cell again.
WakeOnce(t) ==
    /\ threads[t].at = "waiting"
    /\ TOKIO.once # "running"
    /\ OtherThreads(t, [threads[t] EXCEPT !.at = "get_or_init"])
    /\ SequentialUnchanged
    /\ UNCHANGED <<TOKIO, runtimes>>

\* Runtime::new() is Ok: expect returns the Runtime, get_or_init stores it
\* and returns the reference to the stored value.
RuntimeNewOk(t) ==
    /\ threads[t].at = "initialising"
    /\ Cardinality(runtimes) < MaxRuntimes
    /\ runtimes' = runtimes \cup {Runtime_new(runtimes)}
    /\ TOKIO' = OnceLock_set(TOKIO, Runtime_new(runtimes))
    /\ OtherThreads(t, [threads[t] EXCEPT !.at = "has",
                                          !.rt = Runtime_new(runtimes)])
    /\ SequentialUnchanged

\* Runtime::new() is Err: expect("failed to start tokio") panics, nothing is
\* stored, and the Once is left for the next caller.
RuntimeNewErr(t) ==
    /\ threads[t].at = "initialising"
    /\ TOKIO' = [TOKIO EXCEPT !.once = "incomplete"]
    /\ OtherThreads(t, [threads[t] EXCEPT !.at = "panicking"])
    /\ SequentialUnchanged
    /\ UNCHANGED runtimes

\* The exported function has used the runtime and returns.
LeaveTokioRt(t) ==
    /\ threads[t].at = "has"
    /\ OtherThreads(t, [NoCall EXCEPT
                          !.got = threads[t].got \cup {threads[t].rt}])
    /\ SequentialUnchanged
    /\ UNCHANGED <<TOKIO, runtimes>>

\* catch_unwind ends the panic at the exported function, which returns.
CatchUnwind(t) ==
    /\ threads[t].at = "panicking"
    /\ OtherThreads(t, [NoCall EXCEPT !.got = threads[t].got])
    /\ SequentialUnchanged
    /\ UNCHANGED <<TOKIO, runtimes>>

RuntimeNext ==
    \/ \E t \in Threads : EnterTokioRt(t)
    \/ \E t \in Threads : GetInitialised(t)
    \/ \E t \in Threads : ClaimOnce(t)
    \/ \E t \in Threads : WaitOnce(t)
    \/ \E t \in Threads : WakeOnce(t)
    \/ \E t \in Threads : RuntimeNewOk(t)
    \/ \E t \in Threads : RuntimeNewErr(t)
    \/ \E t \in Threads : LeaveTokioRt(t)
    \/ \E t \in Threads : CatchUnwind(t)

RuntimeSpec == Init /\ [][RuntimeNext]_vars

\* The runtimes a thread has obtained from tokio_rt(), now or earlier.
Obtained(t) ==
    threads[t].got \cup (IF threads[t].at = "has" THEN {threads[t].rt} ELSE {})

\* C30: the shared runtime is created at most once per process. Whatever the
\* interleaving of the threads' calls of tokio_rt(), Runtime::new() builds at
\* most one Runtime, at most one thread runs the initialiser at a time, a
\* value once installed in TOKIO is never replaced, and every caller that
\* gets a runtime, in this call or an earlier one, gets the installed one.
C30_RuntimeCreatedOnce ==
    /\ [](/\ Cardinality(runtimes) <= 1
          /\ Cardinality({t \in Threads :
                            threads[t].at = "initialising"}) <= 1
          /\ OnceLock_get(TOKIO) # 0 => runtimes = {OnceLock_get(TOKIO)}
          /\ \A t \in Threads :
                Obtained(t) # {} =>
                    /\ OnceLock_get(TOKIO) # 0
                    /\ Obtained(t) = {OnceLock_get(TOKIO)})
    /\ [][OnceLock_get(TOKIO) # 0 => TOKIO' = TOKIO]_vars

\* Two first calls that overlapped: one thread ran the initialiser, another
\* found it running and waited, and both have the same runtime.
C30_Witness ==
    \E t, u \in Threads :
        /\ t # u
        /\ threads[t].at = "has" /\ threads[u].at = "has"
        /\ threads[t].got = {} /\ threads[u].got = {}
        /\ ~threads[t].waited /\ threads[u].waited
        /\ threads[t].rt = threads[u].rt
        /\ threads[t].rt = OnceLock_get(TOKIO)
        /\ threads[t].rt # 0

====
